---------------------------- MODULE Spec2Model ----------------------------
(***************************************************************************)
(* A model of the campus chatbot of mourishantony/C_faculties_chatbot:     *)
(* the public FAQ chatbot (src/chatbot.py), the two admin chatbots         *)
(* (src/chatbot_service.py, src/chatbot_semantic.py) and the routes of     *)
(* src/main.py that feed them.                                             *)
(*                                                                         *)
(* A Python str is modelled as a sequence of one-character strings, so     *)
(* that lower(), strip(), split(), replace(), the `in` substring test and  *)
(* the regular expressions are computed character by character.            *)
(***************************************************************************)
EXTENDS Integers, Sequences, FiniteSets, TLC

(***************************************************************************)
(* Python str operations                                                   *)
(***************************************************************************)

\* The characters of a model string are the code points 0 to 255; for
\* these the tables below are those of Python 3.11.

\* str.isspace(), which is also the class \s of module re: tab, line feed,
\* vertical tab, form feed, carriage return, the separators 0x1c to 0x1f,
\* space, next line (0x85) and no-break space (0xa0)
Whitespace ==
    {" ", "\t", "\n", "\r", "\f", "", "", "", "", "", "", " "}

\* the class \d of module re
Digits == {"0", "1", "2", "3", "4", "5", "6", "7", "8", "9"}

\* the characters str.lower() changes, and what it makes of each
UpperLetters ==
    <<"A","B","C","D","E","F","G","H","I","J","K","L","M","N","O","P","Q","R","S","T","U","V","W","X","Y","Z","À","Á","Â","Ã","Ä","Å","Æ","Ç","È","É","Ê","Ë","Ì","Í","Î","Ï","Ð","Ñ","Ò","Ó","Ô","Õ","Ö","Ø","Ù","Ú","Û","Ü","Ý","Þ">>
LowerLetters ==
    <<"a","b","c","d","e","f","g","h","i","j","k","l","m","n","o","p","q","r","s","t","u","v","w","x","y","z","à","á","â","ã","ä","å","æ","ç","è","é","ê","ë","ì","í","î","ï","ð","ñ","ò","ó","ô","õ","ö","ø","ù","ú","û","ü","ý","þ">>

\* characters that are cased, or word characters, and have no other case
\* among the characters of a model string
OtherLetters == <<"ß","ÿ","ª","µ","º">>

\* the class \w of module re: what str.isalnum() accepts, and the underscore
WordChars ==
    {UpperLetters[i] : i \in 1..Len(UpperLetters)}
    \cup {LowerLetters[i] : i \in 1..Len(LowerLetters)}
    \cup {OtherLetters[i] : i \in 1..Len(OtherLetters)}
    \cup Digits \cup {"_"} \cup {"²", "³", "¹", "¼", "½", "¾"}

\* the characters str.title() takes to be cased
Cased == WordChars \ (Digits \cup {"_"} \cup {"²", "³", "¹", "¼", "½", "¾"})

LowerMap == [c \in {UpperLetters[i] : i \in 1..Len(UpperLetters)} |->
                LowerLetters[CHOOSE i \in 1..Len(UpperLetters) : UpperLetters[i] = c]]

UpperMap == [c \in {LowerLetters[i] : i \in 1..Len(LowerLetters)} |->
                UpperLetters[CHOOSE i \in 1..Len(LowerLetters) : LowerLetters[i] = c]]

\* the title case of one character, as a string: that of the sharp s has two
\* characters; those of y with diaeresis and of the micro sign are code
\* points above 255, written here by their names
title_char(c) ==
    IF c \in DOMAIN UpperMap THEN <<UpperMap[c]>>
    ELSE IF c = "ß" THEN <<"S", "s">>
    ELSE IF c = "ÿ" THEN <<"U+0178">>
    ELSE IF c = "µ" THEN <<"U+039C">>
    ELSE <<c>>

\* str.lower()
lower(s) == [i \in 1..Len(s) |-> IF s[i] \in DOMAIN LowerMap THEN LowerMap[s[i]] ELSE s[i]]

\* str.capitalize(): first character title-cased, the rest lower-cased
capitalize(s) == IF s = <<>> THEN <<>> ELSE title_char(s[1]) \o lower(Tail(s))

\* str.title(): a character after a cased one is lower-cased, any other
\* title-cased
RECURSIVE title_from(_, _)
title_from(s, i) ==
    IF i > Len(s) THEN <<>>
    ELSE (IF i > 1 /\ s[i - 1] \in Cased THEN lower(<<s[i]>>) ELSE title_char(s[i]))
         \o title_from(s, i + 1)

title(s) == title_from(s, 1)

\* str.replace(old, new) for a one-character old
RECURSIVE replace_char(_, _, _)
replace_char(s, old, new) ==
    IF s = <<>> THEN <<>>
    ELSE (IF Head(s) = old THEN new ELSE <<Head(s)>>) \o replace_char(Tail(s), old, new)

\* str.strip()
strip(s) ==
    LET keep == {i \in 1..Len(s) : s[i] \notin Whitespace}
    IN  IF keep = {} THEN <<>>
        ELSE SubSeq(s, CHOOSE i \in keep : \A j \in keep : i <= j,
                       CHOOSE i \in keep : \A j \in keep : j <= i)

\* p occurs in s starting at index i (1-based)
OccursAt(s, p, i) == i >= 1 /\ i + Len(p) - 1 <= Len(s) /\ SubSeq(s, i, i + Len(p) - 1) = p

\* the substring test `p in s`
Contains(s, p) == \E i \in 1..(Len(s) - Len(p) + 1) : SubSeq(s, i, i + Len(p) - 1) = p

\* str.startswith
startswith(s, p) == Len(p) <= Len(s) /\ SubSeq(s, 1, Len(p)) = p

\* any(p in s for p in patterns), patterns a sequence of strings
ContainsAny(s, patterns) == \E k \in 1..Len(patterns) : Contains(s, patterns[k])

\* str.replace(c, "") for a one-character c
remove_char(s, c) == SelectSeq(s, LAMBDA x : x # c)

\* str.split() with no argument: the maximal runs of non-whitespace, in order
RECURSIVE split_from(_, _, _)
split_from(s, i, cur) ==
    IF i > Len(s) THEN (IF cur = <<>> THEN <<>> ELSE <<cur>>)
    ELSE IF s[i] \in Whitespace
         THEN (IF cur = <<>> THEN <<>> ELSE <<cur>>) \o split_from(s, i + 1, <<>>)
         ELSE split_from(s, i + 1, Append(cur, s[i]))

split(s) == split_from(s, 1, <<>>)

\* " ".join(words)
RECURSIVE join(_)
join(words) ==
    IF words = <<>> THEN <<>>
    ELSE IF Len(words) = 1 THEN words[1]
    ELSE words[1] \o <<" ">> \o join(Tail(words))

DigitValue == [c \in Digits |-> CHOOSE v \in 0..9 : <<"0","1","2","3","4","5","6","7","8","9">>[v + 1] = c]

\* the least element of a non-empty set of integers
Least(S) == CHOOSE i \in S : \A j \in S : i <= j

\* the digits of a number without its leading zeros
strip_zeros(digits) ==
    LET significant == {i \in 1..Len(digits) : digits[i] # "0"}
    IN  IF digits = <<>> THEN <<>>
        ELSE IF significant = {} THEN <<"0">>
        ELSE SubSeq(digits, Least(significant), Len(digits))

\* the number a string of digits writes
RECURSIVE int_value(_)
int_value(s) ==
    IF s = <<>> THEN 0 ELSE 10 * int_value(SubSeq(s, 1, Len(s) - 1)) + DigitValue[s[Len(s)]]

\* the longest string of digits int() converts (sys.get_int_max_str_digits())
int_max_str_digits == 4300

\* what int() answers for a longer one: the exception leaves process_question,
\* which catches nothing
ValueError == [kind |-> "ValueError"]

\* int(s) for a non-empty string of digits
int(s) == IF Len(s) > int_max_str_digits THEN ValueError ELSE int_value(strip_zeros(s))

(***************************************************************************)
(* Pieces of the regular expressions of src/chatbot.py and                 *)
(* src/chatbot_service.py.  re.search tries the start positions from the   *)
(* left and, at each, the alternatives in the order written; \s* and \d+   *)
(* are greedy.  In every pattern below what follows \s* is never a         *)
(* whitespace and what follows \d+ is never a digit, so a match, if there  *)
(* is one, takes the whole run.                                            *)
(***************************************************************************)

\* the index after the run of whitespace that starts at i (\s*)
skip_ws(s, i) ==
    LET stop == {j \in i..Len(s) : s[j] \notin Whitespace}
    IN  IF stop = {} THEN Len(s) + 1 ELSE CHOOSE j \in stop : \A k \in stop : j <= k

\* the index after the run of digits that starts at i; i itself when there is none
skip_digits(s, i) ==
    LET stop == {j \in i..Len(s) : s[j] \notin Digits}
    IN  IF stop = {} THEN Len(s) + 1 ELSE CHOOSE j \in stop : \A k \in stop : j <= k

\* a digit stands at i
DigitAt(s, i) == i >= 1 /\ i <= Len(s) /\ s[i] \in Digits

\* the text of (\d+) matched at i
digits_at(s, i) == SubSeq(s, i, skip_digits(s, i) - 1)

\* the index after (?:lit)? at i
skip_opt(s, i, lit) == IF OccursAt(s, lit, i) THEN i + Len(lit) ELSE i

\* a <= b for two numbers of the same length written in digits
RECURSIVE digits_leq(_, _)
digits_leq(a, b) ==
    IF a = <<>> THEN TRUE
    ELSE IF DigitValue[Head(a)] # DigitValue[Head(b)]
    THEN DigitValue[Head(a)] < DigitValue[Head(b)]
    ELSE digits_leq(Tail(a), Tail(b))

\* the largest INTEGER of SQLite, 2^63 - 1, written in digits
sqlite_max_integer == <<"9","2","2","3","3","7","2","0","3","6","8","5","4","7","7","5","8","0","7">>

\* whether int(digits) can be bound as the parameter of a query: the engine
\* of database.py is SQLite, whose driver raises OverflowError for a Python
\* int beyond 64 bits
binds_as_integer(digits) ==
    LET d == strip_zeros(digits)
    IN  \/ Len(d) < Len(sqlite_max_integer)
        \/ Len(d) = Len(sqlite_max_integer) /\ digits_leq(d, sqlite_max_integer)

\* what a query answers whose parameter cannot be bound: the exception leaves
\* process_question, which catches nothing
OverflowError == [kind |-> "OverflowError"]

\* the decimal digit of a number 0..9
DigitChar(n) == <<"0","1","2","3","4","5","6","7","8","9">>[n + 1]

\* str(n)
RECURSIVE str_int(_)
str_int(n) ==
    IF n < 0 THEN <<"-">> \o str_int(0 - n)
    ELSE IF n < 10 THEN <<DigitChar(n)>>
    ELSE str_int(n \div 10) \o <<DigitChar(n % 10)>>

(***************************************************************************)
(* The store (src/models.py).  A table is the sequence of its rows in the  *)
(* order a query without ORDER BY returns them.  A Python str column is a  *)
(* sequence of characters; a nullable column holds Null when it is NULL.   *)
(***************************************************************************)

VARIABLES
    faculties,       \* Faculty rows, every column but created_at
    timetable,       \* TimetableEntry rows: [id, faculty_id, department_id, day, period,
                     \*                       subject_code, subject_name, class_type]
    daily_entries,   \* DailyEntry rows, every column but created_at
    faqs,            \* FAQ rows: [id, question, answer, category, is_active]
    departments,     \* Department rows: [id, name, code]
    syllabus,        \* Syllabus rows: [id, session_number, session_title, unit, topics, ppt_url]
    lab_programs,    \* LabProgram rows: [id, program_number, program_title, description, moodle_url]
    today,           \* date.today(), as a day number; day 0 is a Monday
    data_query,      \* ChatQuery.query of the request being answered by /api/chatbot
    reads,           \* what the queries it has sent so far found, in the order they were sent
    response,        \* the value process_chatbot_query returned for it
    cascade,         \* the number of the rule of process_question that answered it
    search,          \* what index.search returned for it: [idx, distance]
    index_file,      \* chatbot_index.faiss on disk
    intents_file,    \* chatbot_intents.pkl on disk
    server,          \* the web process: where it stands in startup_event
    semantic_chatbot,\* the module global of src/main.py
    requests,        \* the requests to /api/admin/chatbot being served, by worker thread
    submissions,     \* the requests to /api/faculty/daily-entry being served, by worker thread
    edits            \* the requests to /api/super-admin/... being served, by worker thread

catalog_vars == <<departments, syllabus, lab_programs>>
\* a worker thread serving no request of the super admin
NoEdit == [route |-> "idle"]

store_vars == <<faculties, timetable, daily_entries, faqs, today, catalog_vars>>
public_vars == <<data_query, reads, response, cascade, search, submissions>>
admin_vars == <<index_file, intents_file, server, semantic_chatbot, requests>>
vars == <<faculties, timetable, daily_entries, faqs, departments, syllabus,
          lab_programs, today, data_query, reads, response,
          cascade, search, index_file, intents_file, server, semantic_chatbot, requests,
          submissions, edits>>

\* None in a str column: no string of characters equals it
Null == <<"None">>

\* None where a row is expected
NoRow == [id |-> 0]

\* the worker threads that serve submit_daily_entry
MaxSubmissions == 2

\* a worker thread serving no submission
NoSubmission == [pc |-> "idle", faculty_id |-> 0, date |-> 0, existing |-> NoRow]

\* get_day_name: days[d.weekday()]
DayNames == << <<"M","o","n","d","a","y">>, <<"T","u","e","s","d","a","y">>, <<"W","e","d","n","e","s","d","a","y">>, <<"T","h","u","r","s","d","a","y">>,
               <<"F","r","i","d","a","y">>, <<"S","a","t","u","r","d","a","y">>, <<"S","u","n","d","a","y">> >>

get_day_name(d) == DayNames[(d % 7) + 1]

\* the Department rows of _init_all_data
InitialDepartments ==
    << [id |-> 1,  name |-> <<" ","A","I","&","D","S"," ","-"," ","A">>, code |-> <<"A","I","&","D","S","-","A">>],
       [id |-> 2,  name |-> <<" ","A","I","&","D","S"," ","-"," ","B">>, code |-> <<"A","I","&","D","S","-","B">>],
       [id |-> 3,  name |-> <<" ","A","I","&","M","L"," ","-"," ","A">>, code |-> <<"A","I","&","M","L","-","A">>],
       [id |-> 4,  name |-> <<" ","A","I","&","M","L"," ","-"," ","B">>, code |-> <<"A","I","&","M","L","-","B">>],
       [id |-> 5,  name |-> <<" ","C","S","B","S">>,      code |-> <<"C","S","B","S">>],
       [id |-> 6,  name |-> <<" ","C","S","E"," ","-"," ","A">>,   code |-> <<"C","S","E","-","A">>],
       [id |-> 7,  name |-> <<" ","C","S","E"," ","-"," ","B">>,   code |-> <<"C","S","E","-","B">>],
       [id |-> 8,  name |-> <<" ","C","Y","S">>,       code |-> <<"C","Y","S">>],
       [id |-> 9,  name |-> <<" ","E","C","E"," ","-"," ","A">>,   code |-> <<"E","C","E","-","A">>],
       [id |-> 10, name |-> <<" ","E","C","E"," ","-"," ","B">>,   code |-> <<"E","C","E","-","B">>],
       [id |-> 11, name |-> <<" ","I","T"," ","-"," ","A">>,    code |-> <<"I","T","-","A">>],
       [id |-> 12, name |-> <<" ","I","T"," ","-"," ","B">>,    code |-> <<"I","T","-","B">>],
       [id |-> 13, name |-> <<" ","M","E","C","H">>,      code |-> <<"M","E","C","H">>],
       [id |-> 14, name |-> <<" ","R","A">>,        code |-> <<"R","A">>] >>

\* the PeriodTiming rows of _init_all_data: periods 1..9
PeriodTimings == 1..9

\* get_password_hash: pwd_context.hash(password), a bcrypt hash under a salt
\* drawn at random
get_password_hash(password, salt) == <<"$2b$", salt>> \o password

\* the Faculty rows the model starts with (three faculties of _init_all_data)
InitialFaculties ==
    << [id |-> 1, name |-> <<"S","a","t","h","i","s","h"," ","R">>, email |-> <<"r",".","s","a","t","h","i","s","h","@","k","g","k","i","t","e",".","a","c",".","i","n">>,
        password |-> get_password_hash(<<"K","g","i","s","l","@","1","2","3","4","5">>, 0), phone |-> <<"9","7","9","1","4","0","6","1","6","7">>,
        image_url |-> <<"/","s","t","a","t","i","c","/","i","m","a","g","e","s","/","f","a","c","u","l","t","y","1",".","j","p","g">>,
        linkedin_url |-> <<"h","t","t","p","s",":","/","/","w","w","w",".","l","i","n","k","e","d","i","n",".","c","o","m","/","i","n","/","s","a","t","h","i","s","h","-","r","a","m","a","n","u","j","a","m","-","9","6","5","4","5","3","1","3","a">>,
        github_url |-> <<"h","t","t","p","s",":","/","/","g","i","t","h","u","b",".","c","o","m","/","P","r","o","f","e","s","s","o","r","-","S","a","t","h","i","s","h">>,
        department |-> <<"C","S","E">>, experience |-> <<"1","3">>, c_experience |-> <<"1">>,
        py_experience |-> <<"9">>, research_area |-> <<"M","a","c","h","i","n","e"," ","L","e","a","r","n","i","n","g">>,
        personal_email |-> <<"s","a","t","h","i","s","h","s","e","1","3","@","g","m","a","i","l",".","c","o","m">>, is_active |-> TRUE],
       [id |-> 2, name |-> <<"J","a","n","a","n","i"," ","S">>, email |-> <<"j","a","n","a","n","i",".","s","@","k","g","k","i","t","e",".","a","c",".","i","n">>,
        password |-> get_password_hash(<<"K","g","i","s","l","@","1","2","3","4","5">>, 0), phone |-> <<"9","7","8","6","2","8","2","5","9","8">>,
        image_url |-> <<"/","s","t","a","t","i","c","/","i","m","a","g","e","s","/","f","a","c","u","l","t","y","5",".","j","p","g">>,
        linkedin_url |-> <<"h","t","t","p","s",":","/","/","w","w","w",".","l","i","n","k","e","d","i","n",".","c","o","m","/","i","n","/","j","a","n","a","n","i","-","s">>,
        github_url |-> <<"h","t","t","p","s",":","/","/","g","i","t","h","u","b",".","c","o","m","/","J","A","N","A","N","I","4","4","1","9","9","2">>,
        department |-> <<"I","T">>, experience |-> <<"9",".","5">>, c_experience |-> <<"4">>,
        py_experience |-> <<"3">>, research_area |-> <<"D","e","e","p"," ","L","e","a","r","n","i","n","g"," ","&"," ","N","e","u","r","a","l"," ","N","e","t","w","o","r","k","s">>,
        personal_email |-> <<"j","a","n","a","n","i","4","4","1","9","9","2","@","g","m","a","i","l",".","c","o","m">>, is_active |-> TRUE],
       [id |-> 3, name |-> <<"J","a","n","a","n","i"," ","R">>, email |-> <<"j","a","n","a","n","i",".","r","@","k","g","k","i","t","e",".","a","c",".","i","n">>,
        password |-> get_password_hash(<<"K","g","i","s","l","@","1","2","3","4","5">>, 0), phone |-> <<"9","4","8","8","7","6","2","6","8","8">>,
        image_url |-> <<"/","s","t","a","t","i","c","/","i","m","a","g","e","s","/","f","a","c","u","l","t","y","1","0",".","j","p","g">>,
        linkedin_url |-> <<"h","t","t","p","s",":","/","/","w","w","w",".","l","i","n","k","e","d","i","n",".","c","o","m","/","i","n","/","j","a","n","a","n","i","-","r","a","m","a","n","n","a","c","h","e","t","t","y","-","4","3","b","8","9","2","1","3","7","/">>,
        github_url |-> <<"h","t","t","p","s",":","/","/","g","i","t","h","u","b",".","c","o","m","/","J","a","n","a","n","i","r","2","2">>,
        department |-> Null, experience |-> <<"2",".","5">>, c_experience |-> <<"0">>,
        py_experience |-> <<"0">>, research_area |-> <<"M","a","c","h","i","n","e"," ","L","e","a","r","n","i","n","g">>,
        personal_email |-> <<"j","a","n","a","n","i","r","a","m","a","n","n","a","c","h","e","t","t","y","@","g","m","a","i","l",".","c","o","m">>, is_active |-> TRUE] >>

\* the TimetableEntry rows the model starts with; _init_all_data gives every
\* row the same subject
InitialTimetable ==
    << [id |-> 1, faculty_id |-> 2, department_id |-> 14, day |-> <<"M","o","n","d","a","y">>,
        period |-> 3, subject_code |-> <<"2","4","U","C","S","2","7","1">>, subject_name |-> <<"C"," ","P","r","o","g","r","a","m","m","i","n","g">>,
        class_type |-> <<"l","a","b">>],
       [id |-> 2, faculty_id |-> 1, department_id |-> 6,  day |-> <<"M","o","n","d","a","y">>,
        period |-> 1, subject_code |-> <<"2","4","U","C","S","2","7","1">>, subject_name |-> <<"C"," ","P","r","o","g","r","a","m","m","i","n","g">>,
        class_type |-> <<"t","h","e","o","r","y">>],
       [id |-> 3, faculty_id |-> 1, department_id |-> 11, day |-> <<"T","u","e","s","d","a","y">>,
        period |-> 3, subject_code |-> <<"2","4","U","C","S","2","7","1">>, subject_name |-> <<"C"," ","P","r","o","g","r","a","m","m","i","n","g">>,
        class_type |-> <<"t","h","e","o","r","y">>],
       [id |-> 4, faculty_id |-> 3, department_id |-> 6,  day |-> <<"M","o","n","d","a","y">>,
        period |-> 3, subject_code |-> <<"2","4","U","C","S","2","7","1">>, subject_name |-> <<"C"," ","P","r","o","g","r","a","m","m","i","n","g">>,
        class_type |-> <<"t","h","e","o","r","y">>] >>

\* .first(): the first row or None
first(rows) == IF rows = <<>> THEN NoRow ELSE rows[1]

\* ORDER BY period: ascending, rows of one period in table order
RECURSIVE order_by_period(_)
order_by_period(rows) ==
    IF rows = <<>> THEN <<>>
    ELSE LET m == Least({rows[i].period : i \in 1..Len(rows)})
             k == Least({i \in 1..Len(rows) : rows[i].period = m})
         IN  <<rows[k]>> \o order_by_period(SubSeq(rows, 1, k - 1) \o SubSeq(rows, k + 1, Len(rows)))

\* db.query(Model).filter(Model.id == id).first() over the rows of a table
row_by_id(rows, id) == first(SelectSeq(rows, LAMBDA r : r.id = id))

\* `if data.x is not None: row.x = data.x` for every field x of a body (a
\* field that is None is not in obj): what the Session holds of the object it
\* loaded as `loaded`, the columns whose value differs from the loaded one,
\* with the new value
changes(loaded, obj) ==
    [c \in {k \in DOMAIN obj : obj[k] # loaded[k]} |-> obj[c]]

\* the flush of db.commit() for the object with the primary key id and the
\* changes given: UPDATE .. SET <the changed columns> WHERE id = ..; no
\* statement when no column changed; when no row carries the id any more
\* the flush raises StaleDataError and the table stays as it is
flush_update(rows, id, changed) ==
    [i \in 1..Len(rows) |->
        IF rows[i].id = id
        THEN [c \in DOMAIN rows[i] |->
                 IF c \in DOMAIN changed THEN changed[c] ELSE rows[i][c]]
        ELSE rows[i]]

\* the flush of db.commit() after db.delete(obj): DELETE .. WHERE id = ..
flush_delete(rows, id) == SelectSeq(rows, LAMBDA r : r.id # id)

\* a UNIQUE column holds no value twice
unique_column(rows, column) ==
    \A i, j \in 1..Len(rows) : rows[i][column] = rows[j][column] => i = j

\* db.commit() on a table with a UNIQUE column: the statement that would
\* break the constraint raises IntegrityError and the table stays as it was
commit_unique(rows, flushed, column) ==
    IF unique_column(flushed, column) THEN flushed ELSE rows

\* the Faculty row with an id, or NoRow
faculty_by_id(db, id) == first(SelectSeq(db.faculties, LAMBDA f : f.id = id))

\* the Department row with an id, or NoRow
department_by_id(db, id) == first(SelectSeq(db.departments, LAMBDA d : d.id = id))

\* db.query(TimetableEntry, Faculty, Department).join(Faculty, ...).join(Department, ...):
\* the timetable rows whose faculty and department rows exist, each with the
\* joined Faculty and Department rows
timetable_joined(db) ==
    LET ok == SelectSeq(db.timetable, LAMBDA e :
                  faculty_by_id(db, e.faculty_id) # NoRow /\ department_by_id(db, e.department_id) # NoRow)
    IN  [i \in 1..Len(ok) |->
            [entry |-> ok[i],
             period |-> ok[i].period,
             faculty |-> faculty_by_id(db, ok[i].faculty_id),
             dept |-> department_by_id(db, ok[i].department_id)]]

\* db.query(TimetableEntry, Department).join(Department, ...)
timetable_with_department(db) ==
    LET ok == SelectSeq(db.timetable, LAMBDA e : department_by_id(db, e.department_id) # NoRow)
    IN  [i \in 1..Len(ok) |->
            [entry |-> ok[i],
             period |-> ok[i].period,
             dept |-> department_by_id(db, ok[i].department_id)]]

\* db.query(Faculty).filter_by(is_active=True).all()
active_faculties(db) == SelectSeq(db.faculties, LAMBDA f : f.is_active)

\* db.query(FAQ).filter(FAQ.is_active == True).all()
active_faqs(db) == SelectSeq(db.faqs, LAMBDA f : f.is_active)

\* the Syllabus rows of _init_all_data
InitialSyllabus ==
    << [id |-> 1, session_number |-> 1,
        session_title |-> <<"I","n","t","r","o","d","u","c","t","i","o","n"," ","t","o"," ","C"," ","P","r","o","g","r","a","m","m","i","n","g">>,
        unit |-> 1,
        topics |-> <<"W","h","a","t"," ","i","s"," ","C","?"," ","W","h","y"," ","C"," ","s","t","i","l","l"," ","m","a","t","t","e","r","s"," ","(","s","y","s","t","e","m","s",","," ","O","S",","," ","e","m","b","e","d","d","e","d",")","."," ","D","i","f","f","e","r","e","n","c","e"," ","b","e","t","w","e","e","n"," ","P","y","t","h","o","n"," ","a","n","d"," ","C"," ","(","c","o","m","p","i","l","e","d"," ","v","s"," ","i","n","t","e","r","p","r","e","t","e","d",","," ","p","e","r","f","o","r","m","a","n","c","e",","," ","c","o","n","t","r","o","l",")","."," ","S","t","r","u","c","t","u","r","e"," ","o","f"," ","a"," ","C"," ","p","r","o","g","r","a","m",":"," ","#","i","n","c","l","u","d","e",","," ","m","a","i","n","(",")",","," ","b","r","a","c","e","s",","," ","s","t","a","t","e","m","e","n","t","s",".">>,
        ppt_url |-> <<"h","t","t","p",":","/","/","t","i","n","y",".","c","c","/","C","S","e","s","0","1","D","e","c","k">>],
       [id |-> 2, session_number |-> 2,
        session_title |-> <<"C","o","m","p","i","l","a","t","i","o","n"," ","P","r","o","c","e","s","s"," ","&"," ","P","r","e","p","r","o","c","e","s","s","o","r"," ","D","i","r","e","c","t","i","v","e","s">>,
        unit |-> 1,
        topics |-> <<"P","h","a","s","e","s"," ","o","f"," ","C"," ","p","r","o","g","r","a","m"," ","c","o","m","p","i","l","a","t","i","o","n",":"," ","p","r","e","p","r","o","c","e","s","s","i","n","g",","," ","c","o","m","p","i","l","a","t","i","o","n",","," ","l","i","n","k","i","n","g",","," ","e","x","e","c","u","t","i","o","n","."," ","R","o","l","e"," ","o","f"," ","c","o","m","p","i","l","e","r"," ","a","n","d"," ","l","i","n","k","e","r","."," ","P","r","e","p","r","o","c","e","s","s","o","r"," ","d","i","r","e","c","t","i","v","e","s",":"," ","#","i","n","c","l","u","d","e",","," ","#","d","e","f","i","n","e","."," ","M","a","c","r","o","s"," ","v","s"," ","v","a","r","i","a","b","l","e","s",".">>,
        ppt_url |-> <<"h","t","t","p",":","/","/","t","i","n","y",".","c","c","/","C","S","e","s","0","2","D","e","c","k">>],
       [id |-> 3, session_number |-> 3,
        session_title |-> <<"T","o","k","e","n","s",","," ","K","e","y","w","o","r","d","s"," ","&"," ","D","a","t","a"," ","T","y","p","e","s">>,
        unit |-> 1,
        topics |-> <<"C"," ","t","o","k","e","n","s"," ","o","v","e","r","v","i","e","w","."," ","C","h","a","r","a","c","t","e","r"," ","s","e","t"," ","a","n","d"," ","b","a","s","i","c"," ","s","y","n","t","a","x"," ","r","u","l","e","s","."," ","K","e","y","w","o","r","d","s"," ","v","s"," ","i","d","e","n","t","i","f","i","e","r","s","."," ","D","a","t","a"," ","t","y","p","e","s"," ","o","v","e","r","v","i","e","w"," ","(","i","n","t",","," ","f","l","o","a","t",","," ","c","h","a","r",","," ","d","o","u","b","l","e",")",".">>,
        ppt_url |-> <<"h","t","t","p",":","/","/","t","i","n","y",".","c","c","/","C","S","e","s","0","3","D","e","c","k">>],
       [id |-> 4, session_number |-> 4,
        session_title |-> <<"V","a","r","i","a","b","l","e","s",","," ","C","o","n","s","t","a","n","t","s"," ","&"," ","I","/","O">>,
        unit |-> 1,
        topics |-> <<"C","o","n","s","t","a","n","t","s"," ","a","n","d"," ","v","a","r","i","a","b","l","e","s",":"," ","d","e","c","l","a","r","a","t","i","o","n"," ","v","s"," ","d","e","f","i","n","i","t","i","o","n","."," ","p","r","i","n","t","f",","," ","s","c","a","n","f"," ","(","f","o","r","m","a","t"," ","s","p","e","c","i","f","i","e","r","s",")","."," ","C","o","m","m","o","n"," ","I","/","O"," ","m","i","s","t","a","k","e","s",".">>,
        ppt_url |-> <<"h","t","t","p",":","/","/","t","i","n","y",".","c","c","/","C","S","e","s","0","4","D","e","c","k">>],
       [id |-> 5, session_number |-> 5,
        session_title |-> <<"O","p","e","r","a","t","o","r","s"," ","&"," ","E","x","p","r","e","s","s","i","o","n","s">>,
        unit |-> 1,
        topics |-> <<"A","r","i","t","h","m","e","t","i","c",","," ","r","e","l","a","t","i","o","n","a","l",","," ","l","o","g","i","c","a","l",","," ","a","s","s","i","g","n","m","e","n","t"," ","o","p","e","r","a","t","o","r","s","."," ","E","x","p","r","e","s","s","i","o","n","s"," ","a","n","d"," ","e","v","a","l","u","a","t","i","o","n","."," ","I","n","c","r","e","m","e","n","t","/","d","e","c","r","e","m","e","n","t"," ","o","p","e","r","a","t","o","r","s"," ","(","+","+",","," ","-","-",")"," ","-"," ","p","r","e","f","i","x"," ","v","s"," ","p","o","s","t","f","i","x",".">>,
        ppt_url |-> <<"h","t","t","p",":","/","/","t","i","n","y",".","c","c","/","C","S","e","s","0","5","D","e","c","k">>],
       [id |-> 6, session_number |-> 6,
        session_title |-> <<"O","p","e","r","a","t","o","r"," ","P","r","e","c","e","d","e","n","c","e"," ","&"," ","A","s","s","o","c","i","a","t","i","v","i","t","y">>,
        unit |-> 1,
        topics |-> <<"W","h","y"," ","p","r","e","c","e","d","e","n","c","e"," ","m","a","t","t","e","r","s"," ","i","n"," ","C"," ","m","o","r","e"," ","t","h","a","n"," ","P","y","t","h","o","n","."," ","P","r","e","c","e","d","e","n","c","e"," ","h","i","e","r","a","r","c","h","y","."," ","A","s","s","o","c","i","a","t","i","v","i","t","y"," ","r","u","l","e","s","."," ","E","x","p","r","e","s","s","i","o","n"," ","t","r","a","c","i","n","g"," ","s","t","e","p","-","b","y","-","s","t","e","p",".">>,
        ppt_url |-> <<"h","t","t","p",":","/","/","t","i","n","y",".","c","c","/","C","S","e","s","0","6","D","e","c","k">>],
       [id |-> 7, session_number |-> 7,
        session_title |-> <<"B","r","a","n","c","h","i","n","g"," ","S","t","a","t","e","m","e","n","t","s">>,
        unit |-> 1,
        topics |-> <<"i","f",","," ","i","f","-","e","l","s","e",","," ","n","e","s","t","e","d"," ","i","f","."," ","e","l","s","e","-","i","f"," ","l","a","d","d","e","r","."," ","s","w","i","t","c","h","-","c","a","s","e",":"," ","s","y","n","t","a","x",","," ","b","r","e","a","k",","," ","f","a","l","l","-","t","h","r","o","u","g","h"," ","b","e","h","a","v","i","o","r",".">>,
        ppt_url |-> <<"h","t","t","p",":","/","/","t","i","n","y",".","c","c","/","C","S","e","s","0","7","D","e","c","k">>],
       [id |-> 8, session_number |-> 8,
        session_title |-> <<"L","o","o","p","i","n","g"," ","S","t","a","t","e","m","e","n","t","s">>,
        unit |-> 1,
        topics |-> <<"w","h","i","l","e",","," ","d","o","-","w","h","i","l","e",","," ","f","o","r"," ","l","o","o","p","s","."," ","E","n","t","r","y","-","c","o","n","t","r","o","l","l","e","d"," ","v","s"," ","e","x","i","t","-","c","o","n","t","r","o","l","l","e","d"," ","l","o","o","p","s",".">>,
        ppt_url |-> <<"h","t","t","p",":","/","/","t","i","n","y",".","c","c","/","C","S","e","s","0","8","D","e","c","k">>],
       [id |-> 9, session_number |-> 9,
        session_title |-> <<"C","o","n","t","r","o","l"," ","F","l","o","w"," ","I","n","t","e","g","r","a","t","i","o","n">>,
        unit |-> 1,
        topics |-> <<"C","o","m","b","i","n","i","n","g"," ","b","r","a","n","c","h","i","n","g"," ","a","n","d"," ","l","o","o","p","i","n","g","."," ","N","e","s","t","e","d"," ","l","o","o","p","s"," ","(","p","a","t","t","e","r","n","s",","," ","c","o","u","n","t","i","n","g"," ","l","o","g","i","c",")","."," ","b","r","e","a","k",","," ","c","o","n","t","i","n","u","e",","," ","a","n","d"," ","g","o","t","o",".">>,
        ppt_url |-> <<"h","t","t","p",":","/","/","t","i","n","y",".","c","c","/","C","S","e","s","0","9","D","e","c","k">>],
       [id |-> 10, session_number |-> 10,
        session_title |-> <<"I","n","t","r","o","d","u","c","t","i","o","n"," ","t","o"," ","A","r","r","a","y","s">>,
        unit |-> 2,
        topics |-> <<"W","h","y"," ","a","r","r","a","y","s"," ","a","r","e"," ","n","e","e","d","e","d"," ","(","l","i","m","i","t","a","t","i","o","n","s"," ","o","f"," ","s","c","a","l","a","r"," ","v","a","r","i","a","b","l","e","s",")","."," ","O","n","e","-","d","i","m","e","n","s","i","o","n","a","l"," ","a","r","r","a","y","s",":"," ","d","e","c","l","a","r","a","t","i","o","n"," ","a","n","d"," ","s","y","n","t","a","x","."," ","A","r","r","a","y"," ","i","n","d","e","x","i","n","g"," ","a","n","d"," ","z","e","r","o","-","b","a","s","e","d"," ","i","n","d","e","x","i","n","g","."," ","A","c","c","e","s","s","i","n","g"," ","a","n","d"," ","m","o","d","i","f","y","i","n","g"," ","e","l","e","m","e","n","t","s",".">>,
        ppt_url |-> <<"h","t","t","p",":","/","/","t","i","n","y",".","c","c","/","C","S","e","s","1","0","D","e","c","k">>],
       [id |-> 11, session_number |-> 11,
        session_title |-> <<"1","D"," ","A","r","r","a","y"," ","-"," ","B","a","s","i","c"," ","O","p","e","r","a","t","i","o","n","s">>,
        unit |-> 2,
        topics |-> <<"A","r","r","a","y"," ","i","n","i","t","i","a","l","i","z","a","t","i","o","n"," ","m","e","t","h","o","d","s"," ","(","c","o","m","p","i","l","e","-","t","i","m","e",","," ","r","u","n","-","t","i","m","e",")","."," ","R","e","a","d","i","n","g"," ","v","a","l","u","e","s"," ","i","n","t","o"," ","a","r","r","a","y","s"," ","u","s","i","n","g"," ","l","o","o","p","s","."," ","P","r","i","n","t","i","n","g"," ","a","r","r","a","y"," ","e","l","e","m","e","n","t","s",".">>,
        ppt_url |-> <<"h","t","t","p",":","/","/","t","i","n","y",".","c","c","/","C","S","e","s","1","1","D","e","c","k">>],
       [id |-> 12, session_number |-> 12,
        session_title |-> <<"2","D"," ","A","r","r","a","y","s"," ","a","n","d"," ","M","u","l","t","i","d","i","m","e","n","s","i","o","n","a","l"," ","A","r","r","a","y","s">>,
        unit |-> 2,
        topics |-> <<"D","e","c","l","a","r","a","t","i","o","n"," ","a","n","d"," ","i","n","i","t","i","a","l","i","z","a","t","i","o","n"," ","o","f"," ","2","D"," ","a","r","r","a","y","s","."," ","R","o","w","-","c","o","l","u","m","n"," ","i","n","d","e","x","i","n","g"," ","l","o","g","i","c","."," ","T","r","a","v","e","r","s","i","n","g"," ","2","D"," ","a","r","r","a","y","s"," ","u","s","i","n","g"," ","n","e","s","t","e","d"," ","l","o","o","p","s","."," ","M","u","l","t","i","d","i","m","e","n","s","i","o","n","a","l"," ","a","r","r","a","y","s"," ","b","e","y","o","n","d"," ","2","D",".">>,
        ppt_url |-> <<"h","t","t","p",":","/","/","t","i","n","y",".","c","c","/","C","S","e","s","1","2","D","e","c","k">>],
       [id |-> 13, session_number |-> 13,
        session_title |-> <<"S","e","a","r","c","h","i","n","g"," ","&"," ","S","o","r","t","i","n","g">>,
        unit |-> 2,
        topics |-> <<"L","i","n","e","a","r"," ","S","e","a","r","c","h",":"," ","F","i","n","d","i","n","g"," ","a","n"," ","e","l","e","m","e","n","t"," ","i","n"," ","a"," ","1","D"," ","a","r","r","a","y","."," ","B","u","b","b","l","e"," ","S","o","r","t","."," ","L","o","g","i","c"," ","v","s","."," ","S","y","n","t","a","x",":"," ","m","a","n","u","a","l"," ","s","w","a","p","p","i","n","g"," ","u","s","i","n","g"," ","a"," ","t","e","m","p","o","r","a","r","y"," ","v","a","r","i","a","b","l","e",".">>,
        ppt_url |-> <<"h","t","t","p",":","/","/","t","i","n","y",".","c","c","/","C","S","e","s","1","3","D","e","c","k">>],
       [id |-> 14, session_number |-> 14,
        session_title |-> <<"I","n","t","r","o","d","u","c","t","i","o","n"," ","t","o"," ","S","t","r","i","n","g","s"," ","i","n"," ","C">>,
        unit |-> 2,
        topics |-> <<"W","h","a","t"," ","i","s"," ","a"," ","s","t","r","i","n","g"," ","i","n"," ","C","?"," ","(","c","h","a","r","a","c","t","e","r"," ","a","r","r","a","y"," ","+"," ","n","u","l","l"," ","t","e","r","m","i","n","a","t","o","r",")","."," ","D","i","f","f","e","r","e","n","c","e"," ","b","e","t","w","e","e","n"," ","c","h","a","r","a","c","t","e","r"," ","a","n","d"," ","s","t","r","i","n","g","."," ","D","e","c","l","a","r","i","n","g"," ","a","n","d"," ","i","n","i","t","i","a","l","i","z","i","n","g"," ","s","t","r","i","n","g","s","."," ","I","m","p","o","r","t","a","n","c","e"," ","o","f"," ","'","\\","0","'",".">>,
        ppt_url |-> <<"h","t","t","p",":","/","/","t","i","n","y",".","c","c","/","C","S","e","s","1","4","D","e","c","k">>],
       [id |-> 15, session_number |-> 15,
        session_title |-> <<"R","e","a","d","i","n","g"," ","&"," ","W","r","i","t","i","n","g"," ","S","t","r","i","n","g","s">>,
        unit |-> 2,
        topics |-> <<"R","e","a","d","i","n","g"," ","s","t","r","i","n","g","s"," ","u","s","i","n","g"," ","s","c","a","n","f","(",")"," ","a","n","d"," ","g","e","t","s","(",")","."," ","U","s","i","n","g"," ","f","g","e","t","s","(",")"," ","f","o","r"," ","s","a","f","e","r"," ","i","n","p","u","t","."," ","W","r","i","t","i","n","g"," ","s","t","r","i","n","g","s"," ","u","s","i","n","g"," ","p","r","i","n","t","f","(",")"," ","a","n","d"," ","p","u","t","s","(",")",".">>,
        ppt_url |-> <<"h","t","t","p",":","/","/","t","i","n","y",".","c","c","/","C","S","e","s","1","5","D","e","c","k">>],
       [id |-> 16, session_number |-> 16,
        session_title |-> <<"S","t","r","i","n","g"," ","O","p","e","r","a","t","i","o","n","s"," ","-"," ","B","u","i","l","t","-","i","n"," ","F","u","n","c","t","i","o","n","s">>,
        unit |-> 2,
        topics |-> <<"S","t","r","i","n","g"," ","l","e","n","g","t","h",":"," ","s","t","r","l","e","n","(",")","."," ","S","t","r","i","n","g"," ","c","o","p","y",":"," ","s","t","r","c","p","y","(",")","."," ","S","t","r","i","n","g"," ","c","o","n","c","a","t","e","n","a","t","i","o","n",":"," ","s","t","r","c","a","t","(",")","."," ","S","t","r","i","n","g"," ","c","o","m","p","a","r","i","s","o","n",":"," ","s","t","r","c","m","p","(",")","."," ","H","e","a","d","e","r"," ","f","i","l","e"," ","<","s","t","r","i","n","g",".","h",">",".">>,
        ppt_url |-> <<"h","t","t","p",":","/","/","t","i","n","y",".","c","c","/","C","S","e","s","1","6","D","e","c","k">>],
       [id |-> 17, session_number |-> 17,
        session_title |-> <<"S","t","r","i","n","g"," ","M","a","n","i","p","u","l","a","t","i","o","n">>,
        unit |-> 2,
        topics |-> <<"M","a","n","u","a","l"," ","s","t","r","i","n","g"," ","l","e","n","g","t","h"," ","c","a","l","c","u","l","a","t","i","o","n","."," ","S","t","r","i","n","g"," ","c","o","p","y"," ","u","s","i","n","g"," ","l","o","o","p","s","."," ","S","t","r","i","n","g"," ","c","o","m","p","a","r","i","s","o","n"," ","l","o","g","i","c",".">>,
        ppt_url |-> <<"h","t","t","p",":","/","/","t","i","n","y",".","c","c","/","C","S","e","s","1","7","D","e","c","k">>],
       [id |-> 18, session_number |-> 18,
        session_title |-> <<"A","r","r","a","y","s"," ","o","f"," ","S","t","r","i","n","g","s">>,
        unit |-> 2,
        topics |-> <<"C","o","n","c","e","p","t"," ","o","f"," ","a","r","r","a","y","s"," ","o","f"," ","s","t","r","i","n","g","s"," ","(","2","D"," ","c","h","a","r","a","c","t","e","r"," ","a","r","r","a","y","s",")","."," ","D","e","c","l","a","r","a","t","i","o","n"," ","a","n","d"," ","i","n","i","t","i","a","l","i","z","a","t","i","o","n","."," ","R","e","a","d","i","n","g"," ","a","n","d"," ","d","i","s","p","l","a","y","i","n","g"," ","m","u","l","t","i","p","l","e"," ","s","t","r","i","n","g","s",".">>,
        ppt_url |-> <<"h","t","t","p",":","/","/","t","i","n","y",".","c","c","/","C","S","e","s","1","8","D","e","c","k">>],
       [id |-> 19, session_number |-> 19,
        session_title |-> <<"I","n","t","r","o","d","u","c","t","i","o","n"," ","t","o"," ","F","u","n","c","t","i","o","n","s">>,
        unit |-> 3,
        topics |-> <<"W","h","y"," ","f","u","n","c","t","i","o","n","s"," ","a","r","e"," ","n","e","e","d","e","d"," ","(","m","o","d","u","l","a","r","i","t","y",","," ","r","e","u","s","e",")","."," ","D","i","f","f","e","r","e","n","c","e"," ","b","e","t","w","e","e","n"," ","f","u","n","c","t","i","o","n"," ","d","e","c","l","a","r","a","t","i","o","n"," ","a","n","d"," ","d","e","f","i","n","i","t","i","o","n","."," ","B","u","i","l","t","-","i","n"," ","f","u","n","c","t","i","o","n","s"," ","o","v","e","r","v","i","e","w","."," ","W","r","i","t","i","n","g"," ","a","n","d"," ","c","a","l","l","i","n","g"," ","s","i","m","p","l","e"," ","u","s","e","r","-","d","e","f","i","n","e","d"," ","f","u","n","c","t","i","o","n","s",".">>,
        ppt_url |-> Null],
       [id |-> 20, session_number |-> 20,
        session_title |-> <<"F","u","n","c","t","i","o","n"," ","P","r","o","t","o","t","y","p","e","s"," ","&"," ","P","a","r","a","m","e","t","e","r"," ","P","a","s","s","i","n","g">>,
        unit |-> 3,
        topics |-> <<"F","u","n","c","t","i","o","n"," ","p","r","o","t","o","t","y","p","e","s"," ","a","n","d"," ","w","h","y"," ","t","h","e","y"," ","e","x","i","s","t","."," ","C","a","l","l"," ","b","y"," ","v","a","l","u","e"," ","(","d","e","f","a","u","l","t"," ","i","n"," ","C",")","."," ","U","n","d","e","r","s","t","a","n","d","i","n","g"," ","d","a","t","a"," ","f","l","o","w"," ","b","e","t","w","e","e","n"," ","f","u","n","c","t","i","o","n","s",".">>,
        ppt_url |-> Null],
       [id |-> 21, session_number |-> 21,
        session_title |-> <<"P","a","s","s","i","n","g"," ","A","r","r","a","y","s"," ","t","o"," ","F","u","n","c","t","i","o","n","s"," ","&"," ","V","a","r","i","a","b","l","e"," ","S","c","o","p","e">>,
        unit |-> 3,
        topics |-> <<"P","a","s","s","i","n","g"," ","1","D"," ","a","r","r","a","y","s"," ","t","o"," ","f","u","n","c","t","i","o","n","s","."," ","A","r","r","a","y"," ","p","a","r","a","m","e","t","e","r","s"," ","a","n","d"," ","s","i","z","e"," ","h","a","n","d","l","i","n","g","."," ","S","c","o","p","e"," ","o","f"," ","v","a","r","i","a","b","l","e","s",":"," ","l","o","c","a","l"," ","v","s"," ","g","l","o","b","a","l","."," ","L","i","f","e","t","i","m","e"," ","o","f"," ","v","a","r","i","a","b","l","e","s",".">>,
        ppt_url |-> Null],
       [id |-> 22, session_number |-> 22,
        session_title |-> <<"R","e","c","u","r","s","i","o","n">>,
        unit |-> 3,
        topics |-> <<"W","h","a","t"," ","i","s"," ","r","e","c","u","r","s","i","o","n"," ","a","n","d"," ","w","h","y"," ","i","t"," ","i","s"," ","u","s","e","d","."," ","B","a","s","e"," ","c","o","n","d","i","t","i","o","n"," ","a","n","d"," ","r","e","c","u","r","s","i","v","e"," ","c","a","l","l","."," ","R","e","c","u","r","s","i","v","e"," ","v","s"," ","i","t","e","r","a","t","i","v","e"," ","s","o","l","u","t","i","o","n","s","."," ","E","x","a","m","p","l","e","s",":"," ","f","a","c","t","o","r","i","a","l",","," ","F","i","b","o","n","a","c","c","i",","," ","s","u","m"," ","o","f"," ","d","i","g","i","t","s",".">>,
        ppt_url |-> Null],
       [id |-> 23, session_number |-> 23,
        session_title |-> <<"I","n","t","r","o","d","u","c","t","i","o","n"," ","t","o"," ","P","o","i","n","t","e","r","s">>,
        unit |-> 3,
        topics |-> <<"W","h","a","t"," ","i","s"," ","a"," ","p","o","i","n","t","e","r"," ","a","n","d"," ","w","h","y"," ","i","t"," ","e","x","i","s","t","s","."," ","P","o","i","n","t","e","r"," ","d","e","c","l","a","r","a","t","i","o","n"," ","a","n","d"," ","i","n","i","t","i","a","l","i","z","a","t","i","o","n","."," ","A","d","d","r","e","s","s","-","o","f"," ","(","&",")"," ","a","n","d"," ","d","e","r","e","f","e","r","e","n","c","i","n","g"," ","(","*",")"," ","o","p","e","r","a","t","o","r","s","."," ","C","a","l","l"," ","b","y"," ","r","e","f","e","r","e","n","c","e",".">>,
        ppt_url |-> Null],
       [id |-> 24, session_number |-> 24,
        session_title |-> <<"P","o","i","n","t","e","r"," ","A","r","i","t","h","m","e","t","i","c"," ","&"," ","P","o","i","n","t","e","r","s"," ","w","i","t","h"," ","A","r","r","a","y","s">>,
        unit |-> 3,
        topics |-> <<"P","o","i","n","t","e","r"," ","a","r","i","t","h","m","e","t","i","c"," ","c","o","n","c","e","p","t","s","."," ","R","e","l","a","t","i","o","n","s","h","i","p"," ","b","e","t","w","e","e","n"," ","a","r","r","a","y","s"," ","a","n","d"," ","p","o","i","n","t","e","r","s","."," ","A","c","c","e","s","s","i","n","g"," ","a","r","r","a","y"," ","e","l","e","m","e","n","t","s"," ","u","s","i","n","g"," ","p","o","i","n","t","e","r","s",".">>,
        ppt_url |-> Null],
       [id |-> 25, session_number |-> 25,
        session_title |-> <<"A","d","v","a","n","c","e","d"," ","P","o","i","n","t","e","r"," ","C","o","n","c","e","p","t","s">>,
        unit |-> 3,
        topics |-> <<"P","o","i","n","t","e","r"," ","t","o"," ","p","o","i","n","t","e","r"," ","(","d","o","u","b","l","e"," ","p","o","i","n","t","e","r",")","."," ","U","s","e"," ","c","a","s","e","s","."," ","P","o","i","n","t","e","r","s"," ","t","o"," ","f","u","n","c","t","i","o","n","s",".">>,
        ppt_url |-> Null],
       [id |-> 26, session_number |-> 26,
        session_title |-> <<"P","o","i","n","t","e","r","s"," ","w","i","t","h"," ","S","t","r","i","n","g","s"," ","&"," ","A","r","r","a","y","s">>,
        unit |-> 3,
        topics |-> <<"S","t","r","i","n","g","s"," ","a","s"," ","c","h","a","r","a","c","t","e","r"," ","p","o","i","n","t","e","r","s","."," ","P","o","i","n","t","e","r","-","b","a","s","e","d"," ","s","t","r","i","n","g"," ","t","r","a","v","e","r","s","a","l","."," ","D","i","f","f","e","r","e","n","c","e"," ","b","e","t","w","e","e","n"," ","c","h","a","r","[","]"," ","a","n","d"," ","c","h","a","r","*","."," ","A","r","r","a","y","s"," ","o","f"," ","p","o","i","n","t","e","r","s",".">>,
        ppt_url |-> Null],
       [id |-> 27, session_number |-> 27,
        session_title |-> <<"D","y","n","a","m","i","c"," ","M","e","m","o","r","y"," ","A","l","l","o","c","a","t","i","o","n">>,
        unit |-> 3,
        topics |-> <<"N","e","e","d"," ","f","o","r"," ","d","y","n","a","m","i","c"," ","m","e","m","o","r","y","."," ","m","a","l","l","o","c","(",")",","," ","c","a","l","l","o","c","(",")",","," ","r","e","a","l","l","o","c","(",")",","," ","f","r","e","e","(",")","."," ","M","e","m","o","r","y"," ","l","e","a","k","s"," ","a","n","d"," ","d","a","n","g","l","i","n","g"," ","p","o","i","n","t","e","r","s",".">>,
        ppt_url |-> Null],
       [id |-> 28, session_number |-> 28,
        session_title |-> <<"I","n","t","r","o","d","u","c","t","i","o","n"," ","t","o"," ","S","t","r","u","c","t","u","r","e","s">>,
        unit |-> 4,
        topics |-> <<"W","h","y"," ","s","t","r","u","c","t","u","r","e","s"," ","a","r","e"," ","n","e","e","d","e","d"," ","(","l","i","m","i","t","a","t","i","o","n","s"," ","o","f"," ","a","r","r","a","y","s"," ","a","n","d"," ","v","a","r","i","a","b","l","e","s",")","."," ","S","t","r","u","c","t","u","r","e"," ","d","e","c","l","a","r","a","t","i","o","n"," ","a","n","d"," ","d","e","f","i","n","i","t","i","o","n","."," ","A","c","c","e","s","s","i","n","g"," ","s","t","r","u","c","t","u","r","e"," ","m","e","m","b","e","r","s"," ","u","s","i","n","g"," ","d","o","t"," ","(",".",")"," ","o","p","e","r","a","t","o","r",".">>,
        ppt_url |-> Null],
       [id |-> 29, session_number |-> 29,
        session_title |-> <<"I","n","i","t","i","a","l","i","z","a","t","i","o","n"," ","&"," ","A","r","r","a","y"," ","o","f"," ","S","t","r","u","c","t","u","r","e","s">>,
        unit |-> 4,
        topics |-> <<"S","t","r","u","c","t","u","r","e"," ","i","n","i","t","i","a","l","i","z","a","t","i","o","n"," ","(","c","o","m","p","i","l","e","-","t","i","m","e"," ","a","n","d"," ","r","u","n","-","t","i","m","e",")","."," ","A","r","r","a","y"," ","o","f"," ","s","t","r","u","c","t","u","r","e","s",":"," ","d","e","c","l","a","r","a","t","i","o","n"," ","a","n","d"," ","u","s","a","g","e","."," ","R","e","a","d","i","n","g"," ","a","n","d"," ","d","i","s","p","l","a","y","i","n","g"," ","m","u","l","t","i","p","l","e"," ","s","t","r","u","c","t","u","r","e"," ","r","e","c","o","r","d","s",".">>,
        ppt_url |-> Null],
       [id |-> 30, session_number |-> 30,
        session_title |-> <<"N","e","s","t","e","d"," ","S","t","r","u","c","t","u","r","e","s">>,
        unit |-> 4,
        topics |-> <<"C","o","n","c","e","p","t"," ","o","f"," ","n","e","s","t","e","d"," ","s","t","r","u","c","t","u","r","e","s","."," ","A","c","c","e","s","s","i","n","g"," ","m","e","m","b","e","r","s"," ","o","f"," ","n","e","s","t","e","d"," ","s","t","r","u","c","t","u","r","e","s",".">>,
        ppt_url |-> Null],
       [id |-> 31, session_number |-> 31,
        session_title |-> <<"P","o","i","n","t","e","r","s"," ","a","n","d"," ","S","t","r","u","c","t","u","r","e","s">>,
        unit |-> 4,
        topics |-> <<"N","e","e","d"," ","f","o","r"," ","p","o","i","n","t","e","r","s"," ","w","i","t","h"," ","s","t","r","u","c","t","u","r","e","s","."," ","P","o","i","n","t","e","r"," ","t","o"," ","s","t","r","u","c","t","u","r","e"," ","d","e","c","l","a","r","a","t","i","o","n","."," ","A","c","c","e","s","s","i","n","g"," ","m","e","m","b","e","r","s"," ","u","s","i","n","g"," ","a","r","r","o","w"," ","(","-",">",")"," ","o","p","e","r","a","t","o","r","."," ","P","a","s","s","i","n","g"," ","s","t","r","u","c","t","u","r","e","s"," ","t","o"," ","f","u","n","c","t","i","o","n","s",".">>,
        ppt_url |-> Null],
       [id |-> 32, session_number |-> 32,
        session_title |-> <<"S","e","l","f","-","R","e","f","e","r","e","n","t","i","a","l"," ","S","t","r","u","c","t","u","r","e","s">>,
        unit |-> 4,
        topics |-> <<"W","h","a","t"," ","i","s"," ","a"," ","s","e","l","f","-","r","e","f","e","r","e","n","t","i","a","l"," ","s","t","r","u","c","t","u","r","e"," ","a","n","d"," ","w","h","y"," ","i","t"," ","e","x","i","s","t","s","."," ","S","y","n","t","a","x"," ","a","n","d"," ","m","e","m","o","r","y"," ","v","i","s","u","a","l","i","z","a","t","i","o","n","."," ","R","o","l","e"," ","i","n"," ","d","y","n","a","m","i","c"," ","d","a","t","a"," ","s","t","r","u","c","t","u","r","e","s",".">>,
        ppt_url |-> Null],
       [id |-> 33, session_number |-> 33,
        session_title |-> <<"S","i","n","g","l","y"," ","L","i","n","k","e","d"," ","L","i","s","t"," ","-"," ","C","r","e","a","t","i","o","n">>,
        unit |-> 4,
        topics |-> <<"W","h","a","t"," ","i","s"," ","a"," ","l","i","n","k","e","d"," ","l","i","s","t"," ","a","n","d"," ","w","h","y"," ","a","r","r","a","y","s"," ","f","a","i","l","."," ","N","o","d","e"," ","s","t","r","u","c","t","u","r","e"," ","d","e","f","i","n","i","t","i","o","n","."," ","L","i","n","k","i","n","g"," ","n","o","d","e","s"," ","t","o","g","e","t","h","e","r",".">>,
        ppt_url |-> Null],
       [id |-> 34, session_number |-> 34,
        session_title |-> <<"S","i","n","g","l","y"," ","L","i","n","k","e","d"," ","L","i","s","t"," ","-"," ","O","p","e","r","a","t","i","o","n","s">>,
        unit |-> 4,
        topics |-> <<"T","r","a","v","e","r","s","i","n","g"," ","a"," ","l","i","n","k","e","d"," ","l","i","s","t","."," ","I","n","s","e","r","t","i","o","n","/","d","e","l","e","t","i","o","n"," ","a","t"," ","b","e","g","i","n","n","i","n","g",","," ","i","n","-","b","e","t","w","e","e","n"," ","a","n","d"," ","e","n","d","."," ","D","i","s","p","l","a","y","i","n","g"," ","l","i","n","k","e","d"," ","l","i","s","t"," ","e","l","e","m","e","n","t","s",".">>,
        ppt_url |-> Null],
       [id |-> 35, session_number |-> 35,
        session_title |-> <<"U","n","i","o","n">>,
        unit |-> 4,
        topics |-> <<"U","n","i","o","n"," ","d","e","c","l","a","r","a","t","i","o","n"," ","a","n","d"," ","u","s","a","g","e","."," ","M","e","m","o","r","y"," ","s","h","a","r","i","n","g"," ","c","o","n","c","e","p","t","."," ","S","t","r","u","c","t","u","r","e"," ","v","s"," ","u","n","i","o","n"," ","c","o","m","p","a","r","i","s","o","n",".">>,
        ppt_url |-> Null],
       [id |-> 36, session_number |-> 36,
        session_title |-> <<"S","t","o","r","a","g","e"," ","C","l","a","s","s","e","s">>,
        unit |-> 4,
        topics |-> <<"S","t","o","r","a","g","e"," ","c","l","a","s","s","e","s",":"," ","a","u","t","o",","," ","s","t","a","t","i","c",","," ","e","x","t","e","r","n",","," ","r","e","g","i","s","t","e","r","."," ","S","c","o","p","e",","," ","l","i","f","e","t","i","m","e",","," ","a","n","d"," ","v","i","s","i","b","i","l","i","t","y",".">>,
        ppt_url |-> Null],
       [id |-> 37, session_number |-> 37,
        session_title |-> <<"I","n","t","r","o","d","u","c","t","i","o","n"," ","t","o"," ","F","i","l","e","s">>,
        unit |-> 5,
        topics |-> <<"N","e","e","d"," ","f","o","r"," ","f","i","l","e","s"," ","i","n"," ","C"," ","(","p","e","r","m","a","n","e","n","t"," ","s","t","o","r","a","g","e",")","."," ","D","i","f","f","e","r","e","n","c","e"," ","b","e","t","w","e","e","n"," ","R","A","M"," ","a","n","d"," ","f","i","l","e"," ","s","t","o","r","a","g","e","."," ","T","y","p","e","s"," ","o","f"," ","f","i","l","e"," ","p","r","o","c","e","s","s","i","n","g",":"," ","s","e","q","u","e","n","t","i","a","l"," ","a","n","d"," ","r","a","n","d","o","m"," ","a","c","c","e","s","s",".">>,
        ppt_url |-> Null],
       [id |-> 38, session_number |-> 38,
        session_title |-> <<"F","i","l","e"," ","O","p","e","r","a","t","i","o","n","s"," ","&"," ","F","i","l","e"," ","M","o","d","e","s">>,
        unit |-> 5,
        topics |-> <<"F","i","l","e"," ","p","o","i","n","t","e","r"," ","(","F","I","L","E"," ","*",")","."," ","O","p","e","n","i","n","g"," ","a","n","d"," ","c","l","o","s","i","n","g"," ","f","i","l","e","s",":"," ","f","o","p","e","n","(",")",","," ","f","c","l","o","s","e","(",")","."," ","F","i","l","e"," ","m","o","d","e","s",":"," ","r",","," ","w",","," ","a",","," ","r","+",","," ","w","+",","," ","a","+",".">>,
        ppt_url |-> Null],
       [id |-> 39, session_number |-> 39,
        session_title |-> <<"S","e","q","u","e","n","t","i","a","l"," ","A","c","c","e","s","s"," ","F","i","l","e","s"," ","-"," ","R","e","a","d","i","n","g"," ","&"," ","W","r","i","t","i","n","g">>,
        unit |-> 5,
        topics |-> <<"W","r","i","t","i","n","g"," ","d","a","t","a"," ","t","o"," ","s","e","q","u","e","n","t","i","a","l"," ","f","i","l","e","s","."," ","R","e","a","d","i","n","g"," ","d","a","t","a"," ","f","r","o","m"," ","s","e","q","u","e","n","t","i","a","l"," ","f","i","l","e","s","."," ","F","u","n","c","t","i","o","n","s",":"," ","f","p","r","i","n","t","f","(",")",","," ","f","s","c","a","n","f","(",")",","," ","f","g","e","t","s","(",")",","," ","f","p","u","t","s","(",")",".">>,
        ppt_url |-> Null],
       [id |-> 40, session_number |-> 40,
        session_title |-> <<"S","e","q","u","e","n","t","i","a","l"," ","A","c","c","e","s","s"," ","F","i","l","e"," ","A","p","p","l","i","c","a","t","i","o","n","s">>,
        unit |-> 5,
        topics |-> <<"F","i","n","d","i","n","g"," ","a","v","e","r","a","g","e"," ","o","f"," ","n","u","m","b","e","r","s"," ","s","t","o","r","e","d"," ","i","n"," ","a"," ","f","i","l","e","."," ","P","r","o","c","e","s","s","i","n","g"," ","n","u","m","e","r","i","c"," ","d","a","t","a"," ","f","r","o","m"," ","f","i","l","e","s",".">>,
        ppt_url |-> Null],
       [id |-> 41, session_number |-> 41,
        session_title |-> <<"R","a","n","d","o","m"," ","A","c","c","e","s","s"," ","F","i","l","e","s">>,
        unit |-> 5,
        topics |-> <<"N","e","e","d"," ","f","o","r"," ","r","a","n","d","o","m"," ","a","c","c","e","s","s"," ","f","i","l","e","s","."," ","F","i","l","e"," ","p","o","s","i","t","i","o","n","i","n","g"," ","f","u","n","c","t","i","o","n","s",":"," ","f","s","e","e","k",","," ","f","t","e","l","l",","," ","r","e","w","i","n","d","."," ","D","i","f","f","e","r","e","n","c","e"," ","b","e","t","w","e","e","n"," ","s","e","q","u","e","n","t","i","a","l"," ","a","n","d"," ","r","a","n","d","o","m"," ","a","c","c","e","s","s",".">>,
        ppt_url |-> Null],
       [id |-> 42, session_number |-> 42,
        session_title |-> <<"R","a","n","d","o","m"," ","A","c","c","e","s","s"," ","F","i","l","e","s"," ","w","i","t","h"," ","S","t","r","u","c","t","u","r","e","s">>,
        unit |-> 5,
        topics |-> <<"S","t","o","r","i","n","g"," ","s","t","r","u","c","t","u","r","e"," ","r","e","c","o","r","d","s"," ","i","n"," ","f","i","l","e","s","."," ","R","e","a","d","i","n","g"," ","a","n","d"," ","w","r","i","t","i","n","g"," ","s","t","r","u","c","t","u","r","e"," ","d","a","t","a"," ","(","f","r","e","a","d",","," ","f","w","r","i","t","e",")","."," ","C","a","l","c","u","l","a","t","i","n","g"," ","r","e","c","o","r","d"," ","s","i","z","e","."," ","A","c","c","e","s","s","i","n","g"," ","s","p","e","c","i","f","i","c"," ","r","e","c","o","r","d","s",".">>,
        ppt_url |-> Null],
       [id |-> 43, session_number |-> 43,
        session_title |-> <<"T","r","a","n","s","a","c","t","i","o","n"," ","P","r","o","c","e","s","s","i","n","g"," ","u","s","i","n","g"," ","R","a","n","d","o","m"," ","A","c","c","e","s","s"," ","F","i","l","e","s">>,
        unit |-> 5,
        topics |-> <<"W","h","a","t"," ","i","s"," ","t","r","a","n","s","a","c","t","i","o","n"," ","p","r","o","c","e","s","s","i","n","g","."," ","I","n","s","e","r","t",","," ","u","p","d","a","t","e",","," ","a","n","d"," ","d","e","l","e","t","e"," ","o","p","e","r","a","t","i","o","n","s"," ","o","n"," ","r","e","c","o","r","d","s","."," ","S","i","m","p","l","e"," ","r","e","c","o","r","d","-","b","a","s","e","d"," ","a","p","p","l","i","c","a","t","i","o","n","s",".">>,
        ppt_url |-> Null],
       [id |-> 44, session_number |-> 44,
        session_title |-> <<"F","i","l","e"," ","E","r","r","o","r"," ","H","a","n","d","l","i","n","g">>,
        unit |-> 5,
        topics |-> <<"C","h","e","c","k","i","n","g"," ","f","i","l","e"," ","o","p","e","n"," ","f","a","i","l","u","r","e","s","."," ","C","o","m","m","o","n"," ","r","u","n","t","i","m","e"," ","f","i","l","e"," ","e","r","r","o","r","s","."," ","S","a","f","e"," ","f","i","l","e"," ","h","a","n","d","l","i","n","g"," ","p","r","a","c","t","i","c","e","s",".">>,
        ppt_url |-> Null],
       [id |-> 45, session_number |-> 45,
        session_title |-> <<"C","o","m","m","a","n","d"," ","L","i","n","e"," ","A","r","g","u","m","e","n","t","s">>,
        unit |-> 5,
        topics |-> <<"W","h","a","t"," ","a","r","e"," ","c","o","m","m","a","n","d"," ","l","i","n","e"," ","a","r","g","u","m","e","n","t","s","."," ","a","r","g","c"," ","a","n","d"," ","a","r","g","v"," ","p","a","r","a","m","e","t","e","r","s","."," ","A","c","c","e","s","s","i","n","g"," ","c","o","m","m","a","n","d"," ","l","i","n","e"," ","i","n","p","u","t",".">>,
        ppt_url |-> Null] >>

\* the LabProgram rows of _init_all_data; a character above U+00FF is
\* written as one element that names its code point
InitialLabPrograms ==
    << [id |-> 1, program_number |-> 1,
        program_title |-> <<"I","n","-","L","a","b"," ","W","1",":"," ","S","t","u","d","e","n","t"," ","M","a","r","k","s"," ","C","a","l","c","u","l","a","t","o","r">>,
        description |-> <<"A"," ","s","t","u","d","e","n","t"," ","e","n","t","e","r","s"," ","m","a","r","k","s"," ","o","b","t","a","i","n","e","d"," ","i","n"," ","t","h","r","e","e"," ","s","u","b","j","e","c","t","s","."," ","W","r","i","t","e"," ","a"," ","C"," ","p","r","o","g","r","a","m"," ","t","h","a","t",":"," ","1",")"," ","R","e","a","d","s"," ","t","h","e"," ","s","t","u","d","e","n","t","'","s"," ","r","o","l","l"," ","n","u","m","b","e","r",","," ","2",")"," ","R","e","a","d","s"," ","m","a","r","k","s"," ","o","f"," ","t","h","r","e","e"," ","s","u","b","j","e","c","t","s",","," ","3",")"," ","C","a","l","c","u","l","a","t","e","s"," ","t","o","t","a","l"," ","m","a","r","k","s"," ","a","n","d"," ","a","v","e","r","a","g","e"," ","m","a","r","k","s","."," ","T","h","i","s"," ","p","r","o","b","l","e","m"," ","c","o","m","b","i","n","e","s"," ","i","n","p","u","t","/","o","u","t","p","u","t"," ","h","a","n","d","l","i","n","g",","," ","a","r","i","t","h","m","e","t","i","c"," ","o","p","e","r","a","t","o","r","s",","," ","a","n","d"," ","e","x","p","r","e","s","s","i","o","n"," ","e","v","a","l","u","a","t","i","o","n"," ","i","n","t","o"," ","a"," ","s","i","n","g","l","e"," ","a","p","p","l","i","c","a","t","i","o","n",".">>,
        moodle_url |-> <<"h","t","t","p","s",":","/","/","m","o","o","d","l","e","2",".","k","g","k","i","t","e",".","a","c",".","i","n","/","m","o","d","/","v","p","l","/","v","i","e","w",".","p","h","p","?","i","d","=","2","7","3","9">>],
       [id |-> 2, program_number |-> 2,
        program_title |-> <<"I","n","-","L","a","b"," ","W","2",":"," ","E","m","p","l","o","y","e","e"," ","P","e","r","f","o","r","m","a","n","c","e"," ","E","v","a","l","u","a","t","i","o","n"," ","S","y","s","t","e","m">>,
        description |-> <<"D","e","s","i","g","n"," ","a"," ","C"," ","p","r","o","g","r","a","m"," ","f","o","r"," ","a"," ","b","a","s","i","c"," ","e","m","p","l","o","y","e","e"," ","p","e","r","f","o","r","m","a","n","c","e"," ","e","v","a","l","u","a","t","i","o","n"," ","s","y","s","t","e","m"," ","u","s","e","d"," ","i","n"," ","a"," ","c","o","m","p","a","n","y"," ","H","R"," ","d","e","p","a","r","t","m","e","n","t","."," ","T","h","e"," ","p","r","o","g","r","a","m"," ","s","h","o","u","l","d",":"," ","R","e","a","d"," ","a","n"," ","e","m","p","l","o","y","e","e"," ","I","D",","," ","r","e","a","d"," ","p","e","r","f","o","r","m","a","n","c","e"," ","s","c","o","r","e","s"," ","i","n"," ","t","h","r","e","e"," ","c","r","i","t","e","r","i","a"," ","(","T","e","c","h","n","i","c","a","l"," ","S","k","i","l","l",","," ","C","o","m","m","u","n","i","c","a","t","i","o","n",","," ","a","n","d"," ","T","e","a","m","w","o","r","k",")",","," ","c","a","l","c","u","l","a","t","e"," ","t","o","t","a","l"," ","a","n","d"," ","a","v","e","r","a","g","e"," ","s","c","o","r","e",","," ","d","e","t","e","r","m","i","n","e"," ","t","h","e"," ","p","e","r","f","o","r","m","a","n","c","e"," ","g","r","a","d","e"," ","u","s","i","n","g"," ","b","r","a","n","c","h","i","n","g"," ","r","u","l","e","s",":"," ","I","f"," ","a","n","y"," ","c","r","i","t","e","r","i","o","n"," ","s","c","o","r","e"," ","i","s"," ","l","e","s","s"," ","t","h","a","n"," ","5","0"," ","=",">"," ","P","o","o","r"," ","P","e","r","f","o","r","m","a","n","c","e",","," ","E","l","s","e"," ","i","f"," ","a","v","e","r","a","g","e"," ","U+2265"," ","7","5"," ","=",">"," ","O","u","t","s","t","a","n","d","i","n","g",","," ","E","l","s","e"," ","i","f"," ","a","v","e","r","a","g","e"," ","U+2265"," ","6","0"," ","=",">"," ","S","a","t","i","s","f","a","c","t","o","r","y",","," ","E","l","s","e"," ","=",">"," ","N","e","e","d","s"," ","I","m","p","r","o","v","e","m","e","n","t",".">>,
        moodle_url |-> <<"h","t","t","p","s",":","/","/","m","o","o","d","l","e","2",".","k","g","k","i","t","e",".","a","c",".","i","n","/","m","o","d","/","v","p","l","/","v","i","e","w",".","p","h","p","?","i","d","=","2","7","4","9">>],
       [id |-> 3, program_number |-> 3,
        program_title |-> <<"I","n","-","L","a","b"," ","W","3",":"," ","F","i","z","z","B","u","z","z"," ","A","n","a","l","y","z","e","r">>,
        description |-> <<"F","i","z","z","B","u","z","z"," ","l","o","o","k","s"," ","p","l","a","y","f","u","l",","," ","b","u","t"," ","i","t"," ","q","u","i","e","t","l","y"," ","t","e","s","t","s"," ","d","e","e","p"," ","u","n","d","e","r","s","t","a","n","d","i","n","g"," ","o","f"," ","l","o","o","p","s",","," ","c","o","n","d","i","t","i","o","n","s",","," ","a","n","d"," ","c","o","n","t","r","o","l"," ","f","l","o","w","."," ","W","r","i","t","e"," ","a"," ","C"," ","p","r","o","g","r","a","m"," ","t","h","a","t"," ","p","r","o","c","e","s","s","e","s"," ","n","u","m","b","e","r","s"," ","f","r","o","m"," ","1"," ","t","o"," ","N"," ","a","n","d"," ","a","p","p","l","i","e","s"," ","t","h","e"," ","f","o","l","l","o","w","i","n","g"," ","r","u","l","e","s",":"," ","I","f"," ","t","h","e"," ","n","u","m","b","e","r"," ","i","s"," ","d","i","v","i","s","i","b","l","e"," ","b","y"," ","3",","," ","p","r","i","n","t"," ","F","i","z","z",";"," ","I","f"," ","t","h","e"," ","n","u","m","b","e","r"," ","i","s"," ","d","i","v","i","s","i","b","l","e"," ","b","y"," ","5",","," ","p","r","i","n","t"," ","B","u","z","z",";"," ","I","f"," ","t","h","e"," ","n","u","m","b","e","r"," ","i","s"," ","d","i","v","i","s","i","b","l","e"," ","b","y"," ","b","o","t","h"," ","3"," ","a","n","d"," ","5",","," ","p","r","i","n","t"," ","F","i","z","z","B","u","z","z",";"," ","O","t","h","e","r","w","i","s","e",","," ","p","r","i","n","t"," ","t","h","e"," ","n","u","m","b","e","r"," ","i","t","s","e","l","f","."," ","T","h","i","s"," ","p","r","o","b","l","e","m"," ","i","n","t","e","g","r","a","t","e","s"," ","f","o","r"," ","l","o","o","p"," ","i","t","e","r","a","t","i","o","n",","," ","i","f","-","e","l","s","e"," ","a","n","d"," ","n","e","s","t","e","d"," ","c","o","n","d","i","t","i","o","n","s",","," ","l","o","g","i","c","a","l"," ","r","e","a","s","o","n","i","n","g"," ","w","i","t","h"," ","o","p","e","r","a","t","o","r","s",","," ","a","n","d"," ","c","l","e","a","n"," ","o","u","t","p","u","t"," ","f","o","r","m","a","t","t","i","n","g",".">>,
        moodle_url |-> <<"h","t","t","p","s",":","/","/","m","o","o","d","l","e","2",".","k","g","k","i","t","e",".","a","c",".","i","n","/","m","o","d","/","v","p","l","/","v","i","e","w",".","p","h","p","?","i","d","=","2","7","5","1">>],
       [id |-> 4, program_number |-> 4,
        program_title |-> <<"I","n","-","L","a","b"," ","W","4",":"," ","S","t","u","d","e","n","t"," ","M","a","r","k","s"," ","A","n","a","l","y","s","i","s"," ","S","y","s","t","e","m">>,
        description |-> <<"A"," ","c","l","a","s","s"," ","c","o","n","s","i","s","t","s"," ","o","f"," ","N"," ","s","t","u","d","e","n","t","s",","," ","e","a","c","h"," ","e","v","a","l","u","a","t","e","d"," ","i","n"," ","t","h","r","e","e"," ","s","u","b","j","e","c","t","s","."," ","W","r","i","t","e"," ","a"," ","C"," ","p","r","o","g","r","a","m"," ","t","h","a","t",":"," ","1",")"," ","R","e","a","d","s"," ","m","a","r","k","s"," ","o","f"," ","a","l","l"," ","s","t","u","d","e","n","t","s"," ","i","n","t","o"," ","a"," ","2","D"," ","a","r","r","a","y"," ","(","N"," ","×"," ","3",")",","," ","2",")"," ","C","a","l","c","u","l","a","t","e","s"," ","t","h","e"," ","t","o","t","a","l"," ","m","a","r","k","s"," ","f","o","r"," ","e","a","c","h"," ","s","t","u","d","e","n","t",","," ","3",")"," ","C","a","l","c","u","l","a","t","e","s"," ","t","h","e"," ","c","l","a","s","s"," ","a","v","e","r","a","g","e"," ","f","o","r"," ","e","a","c","h"," ","s","u","b","j","e","c","t",","," ","4",")"," ","D","i","s","p","l","a","y","s"," ","a","l","l"," ","r","e","s","u","l","t","s"," ","n","e","a","t","l","y","."," ","T","h","i","s"," ","p","r","o","b","l","e","m"," ","i","n","t","e","g","r","a","t","e","s"," ","2","D"," ","a","r","r","a","y","s",","," ","n","e","s","t","e","d"," ","l","o","o","p","s",","," ","a","r","r","a","y","-","b","a","s","e","d"," ","a","c","c","u","m","u","l","a","t","i","o","n"," ","a","n","d"," ","c","o","m","p","a","r","i","s","o","n",","," ","a","n","d"," ","c","l","e","a","n"," ","t","a","b","u","l","a","r"," ","o","u","t","p","u","t",".">>,
        moodle_url |-> Null],
       [id |-> 5, program_number |-> 5,
        program_title |-> <<"I","n","-","L","a","b"," ","W","5",":"," ","U","s","e","r","n","a","m","e"," ","P","r","o","c","e","s","s","i","n","g"," ","S","y","s","t","e","m">>,
        description |-> <<"A"," ","s","i","m","p","l","e"," ","s","y","s","t","e","m"," ","i","s"," ","r","e","q","u","i","r","e","d"," ","t","o"," ","p","r","o","c","e","s","s"," ","u","s","e","r"," ","n","a","m","e","s"," ","e","n","t","e","r","e","d"," ","d","u","r","i","n","g"," ","r","e","g","i","s","t","r","a","t","i","o","n","."," ","W","r","i","t","e"," ","a"," ","C"," ","p","r","o","g","r","a","m"," ","t","h","a","t",":"," ","1",")"," ","R","e","a","d","s"," ","a"," ","u","s","e","r","'","s"," ","f","i","r","s","t"," ","n","a","m","e"," ","a","n","d"," ","l","a","s","t"," ","n","a","m","e"," ","a","s"," ","s","t","r","i","n","g","s",","," ","2",")"," ","D","i","s","p","l","a","y","s"," ","t","h","e"," ","l","e","n","g","t","h"," ","o","f"," ","e","a","c","h"," ","n","a","m","e",","," ","3",")"," ","C","h","e","c","k","s"," ","w","h","e","t","h","e","r"," ","b","o","t","h"," ","n","a","m","e","s"," ","a","r","e"," ","i","d","e","n","t","i","c","a","l",","," ","4",")"," ","C","r","e","a","t","e","s"," ","a"," ","u","s","e","r","n","a","m","e"," ","b","y"," ","c","o","n","c","a","t","e","n","a","t","i","n","g"," ","t","h","e"," ","f","i","r","s","t"," ","n","a","m","e"," ","a","n","d"," ","l","a","s","t"," ","n","a","m","e","."," ","T","h","i","s"," ","p","r","o","b","l","e","m"," ","c","o","m","b","i","n","e","s"," ","s","t","r","i","n","g"," ","i","n","p","u","t","/","o","u","t","p","u","t",","," ","l","e","n","g","t","h"," ","c","a","l","c","u","l","a","t","i","o","n",","," ","s","t","r","i","n","g"," ","c","o","m","p","a","r","i","s","o","n",","," ","a","n","d"," ","s","t","r","i","n","g"," ","c","o","n","c","a","t","e","n","a","t","i","o","n","."," ","A","l","l"," ","o","p","e","r","a","t","i","o","n","s"," ","m","u","s","t"," ","u","s","e"," ","s","t","a","n","d","a","r","d"," ","s","t","r","i","n","g"," ","f","u","n","c","t","i","o","n","s",".">>,
        moodle_url |-> Null],
       [id |-> 6, program_number |-> 6,
        program_title |-> <<"I","n","-","L","a","b"," ","W","6",":"," ","P","r","i","m","e"," ","F","a","c","t","o","r","i","z","a","t","i","o","n"," ","U","s","i","n","g"," ","F","u","n","c","t","i","o","n","s">>,
        description |-> <<"W","r","i","t","e"," ","a"," ","C"," ","p","r","o","g","r","a","m"," ","t","h","a","t",":"," ","U","s","e","s"," ","a"," ","f","u","n","c","t","i","o","n"," ","t","o"," ","f","i","n","d"," ","t","h","e"," ","p","r","i","m","e"," ","f","a","c","t","o","r","s"," ","o","f"," ","a"," ","g","i","v","e","n"," ","n","u","m","b","e","r"," ","n",","," ","u","s","e","s"," ","a","n"," ","a","r","r","a","y"," ","t","o"," ","s","t","o","r","e"," ","t","h","e"," ","p","r","i","m","e"," ","f","a","c","t","o","r","s"," ","i","n"," ","n","o","n","-","d","e","c","r","e","a","s","i","n","g"," ","o","r","d","e","r",","," ","u","s","e","s"," ","a"," ","f","u","n","c","t","i","o","n"," ","t","o"," ","r","e","t","u","r","n"," ","t","h","e"," ","t","o","t","a","l"," ","n","u","m","b","e","r"," ","o","f"," ","p","r","i","m","e"," ","f","a","c","t","o","r","s"," ","f","o","u","n","d",","," ","a","n","d"," ","d","i","s","p","l","a","y","s"," ","t","h","e"," ","p","r","i","m","e"," ","f","a","c","t","o","r","s"," ","f","r","o","m"," ","m","a","i","n","(",")","."," ","E","a","c","h"," ","t","a","s","k"," ","m","u","s","t"," ","b","e"," ","h","a","n","d","l","e","d"," ","b","y"," ","a"," ","s","e","p","a","r","a","t","e"," ","f","u","n","c","t","i","o","n",","," ","a","n","d"," ","t","h","e"," ","a","r","r","a","y"," ","m","u","s","t"," ","b","e"," ","p","a","s","s","e","d"," ","b","e","t","w","e","e","n"," ","f","u","n","c","t","i","o","n","s",".">>,
        moodle_url |-> Null],
       [id |-> 7, program_number |-> 7,
        program_title |-> <<"I","n","-","L","a","b"," ","W","7",":"," ","B","i","n","a","r","y"," ","S","e","a","r","c","h"," ","U","s","i","n","g"," ","R","e","c","u","r","s","i","o","n">>,
        description |-> <<"W","r","i","t","e"," ","a"," ","C"," ","p","r","o","g","r","a","m"," ","t","h","a","t",":"," ","U","s","e","s"," ","a"," ","r","e","c","u","r","s","i","v","e"," ","f","u","n","c","t","i","o","n"," ","t","o"," ","p","e","r","f","o","r","m"," ","b","i","n","a","r","y"," ","s","e","a","r","c","h"," ","o","n"," ","a"," ","s","o","r","t","e","d"," ","a","r","r","a","y",","," ","u","s","e","s"," ","a"," ","f","u","n","c","t","i","o","n"," ","t","o"," ","r","e","a","d"," ","N"," ","e","l","e","m","e","n","t","s"," ","i","n","t","o"," ","a","n"," ","a","r","r","a","y"," ","i","n"," ","a","s","c","e","n","d","i","n","g"," ","o","r","d","e","r",","," ","u","s","e","s"," ","a"," ","r","e","c","u","r","s","i","v","e"," ","f","u","n","c","t","i","o","n"," ","t","o"," ","s","e","a","r","c","h"," ","f","o","r"," ","a"," ","g","i","v","e","n"," ","k","e","y",","," ","a","n","d"," ","d","i","s","p","l","a","y","s"," ","w","h","e","t","h","e","r"," ","t","h","e"," ","s","e","a","r","c","h"," ","e","l","e","m","e","n","t"," ","i","s"," ","f","o","u","n","d"," ","o","r"," ","n","o","t"," ","f","r","o","m"," ","m","a","i","n","(",")",".">>,
        moodle_url |-> Null],
       [id |-> 8, program_number |-> 8,
        program_title |-> <<"I","n","-","L","a","b"," ","W","8",":"," ","A","r","r","a","y"," ","E","l","e","m","e","n","t"," ","S","w","a","p"," ","U","s","i","n","g"," ","P","o","i","n","t","e","r","s">>,
        description |-> <<"W","r","i","t","e"," ","a"," ","C"," ","p","r","o","g","r","a","m"," ","t","h","a","t",":"," ","U","s","e","s"," ","a"," ","f","u","n","c","t","i","o","n"," ","t","o"," ","r","e","a","d"," ","N"," ","i","n","t","e","g","e","r","s"," ","i","n","t","o"," ","a","n"," ","a","r","r","a","y",","," ","u","s","e","s"," ","a"," ","f","u","n","c","t","i","o","n"," ","t","o"," ","s","w","a","p"," ","t","w","o"," ","a","r","r","a","y"," ","e","l","e","m","e","n","t","s"," ","u","s","i","n","g"," ","p","o","i","n","t","e","r","s",","," ","u","s","e","s"," ","p","o","i","n","t","e","r"," ","n","o","t","a","t","i","o","n"," ","t","o"," ","a","c","c","e","s","s"," ","a","n","d"," ","m","o","d","i","f","y"," ","a","r","r","a","y"," ","e","l","e","m","e","n","t","s",","," ","a","n","d"," ","d","i","s","p","l","a","y","s"," ","t","h","e"," ","a","r","r","a","y"," ","b","e","f","o","r","e"," ","a","n","d"," ","a","f","t","e","r"," ","s","w","a","p","p","i","n","g"," ","f","r","o","m"," ","m","a","i","n","(",")","."," ","T","h","e"," ","s","w","a","p","p","i","n","g"," ","o","p","e","r","a","t","i","o","n"," ","m","u","s","t"," ","b","e"," ","p","e","r","f","o","r","m","e","d"," ","o","n","l","y"," ","u","s","i","n","g"," ","p","o","i","n","t","e","r","s",","," ","n","o","t"," ","a","r","r","a","y"," ","i","n","d","e","x","i","n","g",".">>,
        moodle_url |-> Null],
       [id |-> 9, program_number |-> 9,
        program_title |-> <<"I","n","-","L","a","b"," ","W","9",":"," ","L","i","b","r","a","r","y"," ","B","o","o","k"," ","R","e","c","o","r","d"," ","M","a","n","a","g","e","m","e","n","t"," ","S","y","s","t","e","m">>,
        description |-> <<"A"," ","l","i","b","r","a","r","y"," ","m","a","i","n","t","a","i","n","s"," ","r","e","c","o","r","d","s"," ","o","f"," ","b","o","o","k","s"," ","i","s","s","u","e","d"," ","t","o"," ","s","t","u","d","e","n","t","s","."," ","E","a","c","h"," ","r","e","c","o","r","d"," ","c","o","n","t","a","i","n","s",":"," ","B","o","o","k"," ","I","D",","," ","B","o","o","k"," ","t","i","t","l","e",","," ","S","t","u","d","e","n","t"," ","d","e","t","a","i","l","s",","," ","a","n","d"," ","I","s","s","u","e"," ","d","a","t","e","."," ","W","r","i","t","e"," ","a"," ","C"," ","p","r","o","g","r","a","m"," ","t","h","a","t",":"," ","1",")"," ","U","s","e","s"," ","a"," ","n","e","s","t","e","d"," ","s","t","r","u","c","t","u","r","e"," ","t","o"," ","r","e","p","r","e","s","e","n","t"," ","i","s","s","u","e"," ","d","a","t","e",","," ","2",")"," ","U","s","e","s"," ","a"," ","s","t","r","u","c","t","u","r","e"," ","f","o","r"," ","s","t","u","d","e","n","t"," ","d","e","t","a","i","l","s",","," ","3",")"," ","S","t","o","r","e","s"," ","m","u","l","t","i","p","l","e"," ","r","e","c","o","r","d","s"," ","u","s","i","n","g"," ","a","n"," ","a","r","r","a","y"," ","o","f"," ","s","t","r","u","c","t","u","r","e","s",","," ","4",")"," ","U","s","e","s"," ","a"," ","p","o","i","n","t","e","r"," ","t","o"," ","s","t","r","u","c","t","u","r","e"," ","t","o"," ","t","r","a","v","e","r","s","e"," ","a","n","d"," ","d","i","s","p","l","a","y"," ","r","e","c","o","r","d","s","."," ","T","h","i","s"," ","m","o","d","e","l","s"," ","h","o","w"," ","s","t","r","u","c","t","u","r","e","d"," ","d","a","t","a"," ","i","s"," ","o","r","g","a","n","i","z","e","d"," ","i","n"," ","r","e","a","l"," ","s","y","s","t","e","m","s",".">>,
        moodle_url |-> Null],
       [id |-> 10, program_number |-> 10,
        program_title |-> <<"I","n","-","L","a","b"," ","W","1","0",":"," ","S","t","u","d","e","n","t"," ","R","e","p","o","r","t"," ","F","i","l","e"," ","S","y","s","t","e","m">>,
        description |-> <<"A"," ","c","o","l","l","e","g","e"," ","d","e","p","a","r","t","m","e","n","t"," ","w","a","n","t","s"," ","t","o"," ","s","t","o","r","e"," ","s","t","u","d","e","n","t"," ","a","c","a","d","e","m","i","c"," ","d","e","t","a","i","l","s"," ","i","n"," ","a"," ","f","i","l","e"," ","s","o"," ","t","h","a","t"," ","t","h","e"," ","d","a","t","a"," ","i","s"," ","n","o","t"," ","l","o","s","t"," ","w","h","e","n"," ","t","h","e"," ","p","r","o","g","r","a","m"," ","e","n","d","s","."," ","W","r","i","t","e"," ","a"," ","C"," ","p","r","o","g","r","a","m"," ","t","h","a","t",":"," ","1",")"," ","W","r","i","t","e","s"," ","s","t","u","d","e","n","t"," ","d","e","t","a","i","l","s"," ","t","o"," ","a"," ","f","i","l","e",","," ","2",")"," ","A","p","p","e","n","d","s"," ","s","u","b","j","e","c","t"," ","m","a","r","k","s"," ","t","o"," ","t","h","e"," ","s","a","m","e"," ","f","i","l","e",","," ","3",")"," ","R","e","a","d","s"," ","a","n","d"," ","d","i","s","p","l","a","y","s"," ","t","h","e"," ","c","o","m","p","l","e","t","e"," ","f","i","l","e"," ","c","o","n","t","e","n","t",","," ","4",")"," ","U","s","e","s"," ","a"," ","f","i","l","e"," ","p","o","i","n","t","e","r"," ","t","o"," ","r","e","-","r","e","a","d"," ","t","h","e"," ","f","i","l","e"," ","f","r","o","m"," ","t","h","e"," ","b","e","g","i","n","n","i","n","g",".">>,
        moodle_url |-> Null] >>

(***************************************************************************)
(* FAQChatbot (src/chatbot.py).  A handler's answer is the record of the   *)
(* template it fills (kind) and of the values it fills it with; None is    *)
(* the answer of a rule that did not match.                                *)
(***************************************************************************)

None == [kind |-> "None"]

\* the exception raised on the way from the digits a pattern matched to the
\* rows of a query filtered by their number, or None: int() raises
\* ValueError, the binding of the parameter OverflowError
number_error(digits) ==
    IF Len(digits) > int_max_str_digits THEN ValueError
    ELSE IF ~binds_as_integer(digits) THEN OverflowError
    ELSE None

\* sorted(xs) for a list of integers
RECURSIVE sorted(_)
sorted(xs) ==
    IF xs = <<>> THEN <<>>
    ELSE LET k == Least({i \in 1..Len(xs) : \A j \in 1..Len(xs) : xs[i] <= xs[j]})
         IN  <<xs[k]>> \o sorted(SubSeq(xs, 1, k - 1) \o SubSeq(xs, k + 1, Len(xs)))

\* re.search(r'(?:period\s*(\d+)|(\d+)(?:st|nd|rd|th)?\s*period|in\s+(?:the\s+)?(\d+)(?:st|nd|rd|th)?)', s)
\* tried at start position i: the index of the first digit of the group that
\* matched, or 0 when no alternative matches at i
Ordinals == << <<"s","t">>, <<"n","d">>, <<"r","d">>, <<"t","h">> >>

\* the index after (?:st|nd|rd|th)? at i
skip_ordinal(s, i) ==
    IF \E k \in 1..4 : OccursAt(s, Ordinals[k], i) THEN i + 2 ELSE i

period_match_at(s, i) ==
    LET a1 == skip_ws(s, i + 6)
        a2 == skip_ws(s, skip_ordinal(s, skip_digits(s, i)))
        w3 == skip_ws(s, i + 2)
        t3 == skip_ws(s, w3 + 3)
    IN  IF OccursAt(s, <<"p","e","r","i","o","d">>, i) /\ DigitAt(s, a1) THEN a1
        ELSE IF DigitAt(s, i) /\ OccursAt(s, <<"p","e","r","i","o","d">>, a2) THEN i
        ELSE IF OccursAt(s, <<"i","n">>, i) /\ w3 > i + 2
             THEN (IF OccursAt(s, <<"t","h","e">>, w3) /\ t3 > w3 + 3 /\ DigitAt(s, t3) THEN t3
                   ELSE IF DigitAt(s, w3) THEN w3
                   ELSE 0)
        ELSE 0

\* the pattern without its second alternative: only 'period N' and 'in
\* (the) N' are known
extract_period_without_ordinal(s) ==
    LET at(i) == IF DigitAt(s, i) /\ ~OccursAt(s, <<"p","e","r","i","o","d">>, i) /\ ~OccursAt(s, <<"i","n">>, i)
                 THEN 0 ELSE period_match_at(s, i)
        starts == {i \in 1..Len(s) : at(i) > 0}
    IN  IF starts = {} THEN -1
        ELSE int(digits_at(s, at(Least(starts))))

\* the period number _check_period_query extracts, or -1 when the pattern
\* matches nowhere
\* match.group(1) of the pattern of _check_period_query, or the empty string
\* when the pattern matches nowhere
period_digits(s) ==
    LET starts == {i \in 1..Len(s) : period_match_at(s, i) > 0}
    IN  IF starts = {} THEN <<>>
        ELSE digits_at(s, period_match_at(s, Least(starts)))

extract_period(s) ==
    IF period_digits(s) = <<>> THEN -1 ELSE int(period_digits(s))

\* _get_period_schedule
_get_period_schedule(db, period, day_name) ==
    LET entries == SelectSeq(timetable_joined(db), LAMBDA r :
                       r.entry.day = day_name /\ r.entry.period = period)
    IN  IF entries = <<>>
        THEN [kind |-> "no_classes_in_period", period |-> period, day |-> day_name]
        ELSE [kind |-> "period_schedule", period |-> period, day |-> day_name,
              rows |-> entries, total |-> Len(entries)]

\* _check_period_query
_check_period_query(db, question_lower, day_name) ==
    IF period_digits(question_lower) = <<>> THEN None
    ELSE IF number_error(period_digits(question_lower)) # None
    THEN number_error(period_digits(question_lower))
    ELSE _get_period_schedule(db, extract_period(question_lower), day_name)

\* _get_day_schedule: the rows ordered by period, then grouped by period
_get_day_schedule(db, day_name) ==
    LET entries == order_by_period(SelectSeq(timetable_joined(db), LAMBDA r :
                       r.entry.day = day_name))
    IN  IF entries = <<>>
        THEN [kind |-> "no_classes_for_day", day |-> day_name]
        ELSE [kind |-> "day_schedule", day |-> day_name, rows |-> entries]

\* the keys of the dict `days` of _check_day_query, in insertion order
DayKeys == << <<"m","o","n","d","a","y">>, <<"t","u","e","s","d","a","y">>, <<"w","e","d","n","e","s","d","a","y">>, <<"t","h","u","r","s","d","a","y">>,
              <<"f","r","i","d","a","y">>, <<"s","a","t","u","r","d","a","y">>, <<"s","u","n","d","a","y">> >>

\* _check_day_query
_check_day_query(db, question_lower) ==
    LET hit == {k \in 1..7 : Contains(question_lower, DayKeys[k])}
    IN  IF hit = {} THEN None ELSE _get_day_schedule(db, DayNames[Least(hit)])

\* _get_faculty_today_schedule
_get_faculty_today_schedule(db, faculty, day_name) ==
    LET entries == order_by_period(SelectSeq(timetable_with_department(db), LAMBDA r :
                       r.entry.faculty_id = faculty.id /\ r.entry.day = day_name))
    IN  IF entries = <<>>
        THEN [kind |-> "faculty_no_classes", faculty |-> faculty.id, day |-> day_name]
        ELSE [kind |-> "faculty_today_schedule", faculty |-> faculty.id, day |-> day_name,
              rows |-> entries, total |-> Len(entries)]

\* a part of the faculty's name, of any length, is in the question
name_part_of_any_length_in(faculty, question_lower) ==
    LET name_parts == split(lower(faculty.name))
    IN  \E k \in 1..Len(name_parts) : Contains(question_lower, name_parts[k])

\* a part of the faculty's name, longer than 2 characters, is in the question
name_part_in(faculty, question_lower) ==
    LET name_parts == split(lower(faculty.name))
    IN  \E k \in 1..Len(name_parts) :
            Len(name_parts[k]) > 2 /\ Contains(question_lower, name_parts[k])

schedule_patterns ==
    << <<"s","h","o","w"," ","s","c","h","e","d","u","l","e">>, <<"t","o","d","a","y"," ","s","c","h","e","d","u","l","e">>, <<"s","c","h","e","d","u","l","e"," ","t","o","d","a","y">>, <<"t","o","d","a","y","'","s"," ","s","c","h","e","d","u","l","e">>,
       <<"s","h","o","w"," ","c","l","a","s","s","e","s">>, <<"c","l","a","s","s","e","s"," ","t","o","d","a","y">>, <<"t","o","d","a","y","'","s"," ","c","l","a","s","s","e","s">>, <<"t","o","d","a","y"," ","c","l","a","s","s","e","s">>,
       <<"w","h","o"," ","h","a","s"," ","c","l","a","s","s">>, <<"w","h","o"," ","i","s"," ","t","e","a","c","h","i","n","g">>, <<"t","e","a","c","h","i","n","g"," ","t","o","d","a","y">>, <<"a","l","l"," ","c","l","a","s","s","e","s">>,
       <<"s","h","o","w"," ","t","i","m","e","t","a","b","l","e">>, <<"t","i","m","e","t","a","b","l","e"," ","t","o","d","a","y">>, <<"t","o","d","a","y","'","s"," ","t","i","m","e","t","a","b","l","e">>,
       <<"s","h","o","w"," ","t","o","d","a","y">>, <<"t","o","d","a","y"," ","s","h","o","w">>, <<"s","c","h","e","d","u","l","e">>, <<"s","h","e","d","u","l","e">>,
       <<"c"," ","p","r","o","g","r","a","m","m","i","n","g"," ","c","l","a","s","s","e","s"," ","t","o","d","a","y">>, <<"w","h","a","t"," ","a","r","e"," ","t","h","e"," ","c","l","a","s","s","e","s">>, <<"w","h","a","t"," ","c","l","a","s","s","e","s">>,
       <<"c"," ","c","l","a","s","s"," ","t","o","d","a","y">>, <<"p","r","o","g","r","a","m","m","i","n","g"," ","c","l","a","s","s","e","s">> >>

\* _is_general_schedule_query
_is_general_schedule_query(question_lower) == ContainsAny(question_lower, schedule_patterns)

\* the faculty rule gives way to the generic schedule rule
_check_faculty_name_query_after_generic(db, question_lower, day_name) ==
    LET fs == active_faculties(db)
        hit == {i \in 1..Len(fs) : name_part_in(fs[i], question_lower)}
    IN  IF hit = {} \/ _is_general_schedule_query(question_lower) THEN None
        ELSE _get_faculty_today_schedule(db, fs[Least(hit)], day_name)

\* _check_faculty_name_query
_check_faculty_name_query(db, question_lower, day_name) ==
    LET fs == active_faculties(db)
        hit == {i \in 1..Len(fs) : name_part_in(fs[i], question_lower)}
    IN  IF hit = {} THEN None
        ELSE _get_faculty_today_schedule(db, fs[Least(hit)], day_name)

\* _get_department_schedule
_get_department_schedule(db, dept_code, day_name) ==
    LET entries == order_by_period(SelectSeq(timetable_joined(db), LAMBDA r :
                       r.dept.code = dept_code /\ r.entry.day = day_name))
    IN  IF entries = <<>>
        THEN [kind |-> "no_classes_for_department", dept |-> dept_code, day |-> day_name]
        ELSE [kind |-> "department_schedule", dept |-> dept_code, day |-> day_name,
              rows |-> entries]

dept_codes_with_hyphen ==
    << <<"A","I","D","S","-","A">>, <<"A","I","D","S","-","B">>, <<"A","I","M","L","-","A">>, <<"A","I","M","L","-","B">>, <<"C","S","E","-","A">>, <<"C","S","E","-","B">>,
       <<"E","C","E","-","A">>, <<"E","C","E","-","B">>, <<"I","T","-","A">>, <<"I","T","-","B">> >>

single_dept_codes == << <<"C","S","B","S">>, <<"C","Y","S">>, <<"M","E","C","H">>, <<"R","A">> >>

\* the word is looked for anywhere in the text, inside longer words too
search_word_substring(s, word) == Contains(s, word)

\* re.search(r'\b' + word + r'\b', s) for a word of \w characters: an
\* occurrence with no \w character next to it on either side
search_word(s, word) ==
    \E i \in 1..(Len(s) - Len(word) + 1) :
        /\ SubSeq(s, i, i + Len(word) - 1) = word
        /\ (i = 1 \/ s[i - 1] \notin WordChars)
        /\ (i + Len(word) > Len(s) \/ s[i + Len(word)] \notin WordChars)

\* the single-token code the second loop of _check_department_query stops at
\* (its index in single_dept_codes), or 0
match_single_dept_code(question_lower) ==
    LET hit == {k \in 1..Len(single_dept_codes) :
                    search_word(question_lower, lower(single_dept_codes[k]))}
    IN  IF hit = {} THEN 0 ELSE Least(hit)

\* the hyphenated code the first loop of _check_department_query stops at
\* (its index in dept_codes_with_hyphen), or 0
match_hyphen_dept_code(question_lower) ==
    LET question_normalized == lower(remove_char(remove_char(question_lower, "-"), " "))
        hit == {k \in 1..Len(dept_codes_with_hyphen) :
                    Contains(question_normalized,
                             remove_char(lower(dept_codes_with_hyphen[k]), "-"))}
    IN  IF hit = {} THEN 0 ELSE Least(hit)

\* _check_department_query
_check_department_query(db, question_lower, day_name) ==
    IF match_hyphen_dept_code(question_lower) # 0
    THEN _get_department_schedule(db,
             dept_codes_with_hyphen[match_hyphen_dept_code(question_lower)], day_name)
    ELSE IF match_single_dept_code(question_lower) # 0
    THEN _get_department_schedule(db,
             single_dept_codes[match_single_dept_code(question_lower)], day_name)
    ELSE None

\* _get_class_type_schedule: the rows ordered by period, then grouped by period
_get_class_type_schedule(db, class_type, day_name) ==
    LET entries == order_by_period(SelectSeq(timetable_joined(db), LAMBDA r :
                       r.entry.day = day_name /\ r.entry.class_type = class_type))
    IN  IF entries = <<>>
        THEN [kind |-> "no_classes_of_type", class_type |-> class_type, day |-> day_name]
        ELSE [kind |-> "class_type_schedule", class_type |-> class_type, day |-> day_name,
              rows |-> entries, total |-> Len(entries)]

lab_patterns ==
    << <<"l","a","b"," ","t","o","d","a","y">>, <<"t","o","d","a","y"," ","l","a","b">>, <<"t","o","d","a","y","'","s"," ","l","a","b">>, <<"l","a","b","s"," ","t","o","d","a","y">>,
       <<"w","h","o"," ","h","a","s"," ","l","a","b">>, <<"w","h","o"," ","i","s"," ","t","a","k","i","n","g"," ","l","a","b">>, <<"l","a","b"," ","c","l","a","s","s"," ","t","o","d","a","y">>,
       <<"l","a","b"," ","s","c","h","e","d","u","l","e">>, <<"s","h","o","w"," ","l","a","b">>, <<"l","a","b"," ","c","l","a","s","s","e","s">> >>

\* _check_lab_query
_check_lab_query(db, question_lower, day_name) ==
    IF ContainsAny(question_lower, lab_patterns)
    THEN _get_class_type_schedule(db, <<"l","a","b">>, day_name)
    ELSE None

theory_patterns ==
    << <<"t","h","e","o","r","y"," ","t","o","d","a","y">>, <<"t","o","d","a","y"," ","t","h","e","o","r","y">>, <<"t","o","d","a","y","'","s"," ","t","h","e","o","r","y">>,
       <<"w","h","o"," ","h","a","s"," ","t","h","e","o","r","y">>, <<"w","h","o"," ","i","s"," ","t","a","k","i","n","g"," ","t","h","e","o","r","y">>, <<"t","h","e","o","r","y"," ","c","l","a","s","s"," ","t","o","d","a","y">>,
       <<"t","h","e","o","r","y"," ","s","c","h","e","d","u","l","e">>, <<"s","h","o","w"," ","t","h","e","o","r","y">>, <<"t","h","e","o","r","y"," ","c","l","a","s","s","e","s">> >>

\* _check_theory_query
_check_theory_query(db, question_lower, day_name) ==
    IF ContainsAny(question_lower, theory_patterns)
    THEN _get_class_type_schedule(db, <<"t","h","e","o","r","y">>, day_name)
    ELSE None

absent_patterns ==
    << <<"w","h","o"," ","i","s"," ","a","b","s","e","n","t">>, <<"a","b","s","e","n","t"," ","t","o","d","a","y">>, <<"w","h","o","'","s"," ","a","b","s","e","n","t">>, <<"a","b","s","e","n","t"," ","f","a","c","u","l","t","y">>,
       <<"n","o","t"," ","t","e","a","c","h","i","n","g">>, <<"n","o"," ","c","l","a","s","s"," ","t","o","d","a","y">>, <<"f","r","e","e"," ","t","o","d","a","y">>, <<"w","h","o"," ","i","s"," ","f","r","e","e">>,
       <<"w","h","o"," ","d","o","e","s","n","'","t"," ","h","a","v","e"," ","c","l","a","s","s">>, <<"w","h","o"," ","d","o","e","s"," ","n","o","t"," ","h","a","v","e"," ","c","l","a","s","s">> >>

\* _is_absent_query
_is_absent_query(question_lower) == ContainsAny(question_lower, absent_patterns)

\* the items of a list without repetition, each at its first place
RECURSIVE unique(_)
unique(xs) ==
    IF xs = <<>> THEN <<>>
    ELSE LET rest == unique(SubSeq(xs, 1, Len(xs) - 1))
             x == xs[Len(xs)]
         IN  IF \E i \in 1..Len(rest) : rest[i] = x THEN rest ELSE Append(rest, x)

\* _get_absent_faculty: the faculty with a DailyEntry of today marked absent
_get_absent_faculty(db, today_date, day_name) ==
    LET absent_entries == SelectSeq(db.daily_entries, LAMBDA e :
                              /\ e.date = today_date /\ e.is_absent
                              /\ faculty_by_id(db, e.faculty_id) # NoRow)
        absent_faculty == unique([i \in 1..Len(absent_entries) |-> absent_entries[i].faculty_id])
    IN  IF absent_entries = <<>>
        THEN [kind |-> "no_absentees_all_present", day |-> day_name]
        ELSE [kind |-> "absent_faculty", day |-> day_name,
              rows |-> absent_faculty, total |-> Len(absent_faculty)]

summary_patterns ==
    << <<"t","o","d","a","y","'","s"," ","s","u","m","m","a","r","y">>, <<"t","o","d","a","y","s"," ","s","u","m","m","a","r","y">>, <<"s","u","m","m","a","r","y"," ","t","o","d","a","y">>, <<"s","u","m","m","a","r","y">>,
       <<"o","v","e","r","v","i","e","w"," ","t","o","d","a","y">>, <<"t","o","d","a","y","'","s"," ","o","v","e","r","v","i","e","w">>, <<"d","a","i","l","y"," ","s","u","m","m","a","r","y">>, <<"d","a","y"," ","s","u","m","m","a","r","y">> >>

\* _is_summary_query
_is_summary_query(question_lower) == ContainsAny(question_lower, summary_patterns)

\* _get_today_summary: six count queries, sent one after the other; dbs[k]
\* is the store as the k-th of them finds it
_get_today_summary(dbs, day_name) ==
    LET of_day(k) == SelectSeq(dbs[k].timetable, LAMBDA e : e.day = day_name)
        total_entries == Len(of_day(1))
        theory_count == Len(SelectSeq(of_day(2), LAMBDA e : e.class_type = <<"t","h","e","o","r","y">>))
        lab_count == Len(SelectSeq(of_day(3), LAMBDA e : e.class_type = <<"l","a","b">>))
        faculty_teaching == Cardinality({of_day(4)[i].faculty_id : i \in 1..Len(of_day(4))}
                                \cap {dbs[4].faculties[i].id : i \in 1..Len(dbs[4].faculties)})
        total_faculty == Len(active_faculties(dbs[5]))
        depts_with_classes == Cardinality({of_day(6)[i].department_id : i \in 1..Len(of_day(6))})
    IN  [kind |-> "today_summary", day |-> day_name,
         total_entries |-> total_entries, theory_count |-> theory_count,
         lab_count |-> lab_count, faculty_teaching |-> faculty_teaching,
         total_faculty |-> total_faculty,
         free_today |-> total_faculty - faculty_teaching,
         depts_with_classes |-> depts_with_classes]

topic_patterns ==
    << <<"t","o","p","i","c","s"," ","t","o","d","a","y">>, <<"t","o","d","a","y"," ","t","o","p","i","c","s">>, <<"t","o","p","i","c","s"," ","c","o","v","e","r","e","d">>, <<"w","h","a","t"," ","t","o","p","i","c","s">>,
       <<"s","y","l","l","a","b","u","s"," ","t","o","d","a","y">>, <<"t","o","p","i","c","s"," ","b","e","i","n","g"," ","t","a","u","g","h","t">>, <<"w","h","a","t"," ","i","s"," ","b","e","i","n","g"," ","t","a","u","g","h","t">>,
       <<"w","h","a","t"," ","a","r","e"," ","b","e","i","n","g"," ","t","a","u","g","h","t">>, <<"t","a","u","g","h","t"," ","t","o","d","a","y">> >>

\* _is_topics_query
_is_topics_query(question_lower) == ContainsAny(question_lower, topic_patterns)

\* ORDER BY session_number
RECURSIVE order_by_session_number(_)
order_by_session_number(rows) ==
    IF rows = <<>> THEN <<>>
    ELSE LET m == Least({rows[i].session_number : i \in 1..Len(rows)})
             k == Least({i \in 1..Len(rows) : rows[i].session_number = m})
         IN  <<rows[k]>> \o order_by_session_number(
                 SubSeq(rows, 1, k - 1) \o SubSeq(rows, k + 1, Len(rows)))

\* the Syllabus row with an id, or NoRow
syllabus_by_id(db, id) == first(SelectSeq(db.syllabus, LAMBDA s : s.id = id))

\* _get_topics_today: the query for the daily entries of today, and when it
\* finds none the query for the syllabus overview, which finds the store as
\* it is by then (later)
_get_topics_today(db, later, today_date, day_name) ==
    LET entries == SelectSeq(db.daily_entries, LAMBDA e :
                       /\ e.date = today_date
                       /\ faculty_by_id(db, e.faculty_id) # NoRow
                       /\ department_by_id(db, e.department_id) # NoRow)
        upcoming == LET all == order_by_session_number(later.syllabus)
                    IN  SubSeq(all, 1, IF Len(all) < 5 THEN Len(all) ELSE 5)
    IN  IF entries = <<>>
        THEN (IF upcoming # <<>>
              THEN [kind |-> "topics_overview_no_entries", day |-> day_name, rows |-> upcoming]
              ELSE [kind |-> "no_syllabus_information"])
        ELSE [kind |-> "topics_covered", day |-> day_name,
              rows |-> [i \in 1..Len(entries) |->
                  [faculty |-> entries[i].faculty_id,
                   dept |-> department_by_id(db, entries[i].department_id).code,
                   line |-> IF syllabus_by_id(db, entries[i].syllabus_id) # NoRow
                            THEN <<"S","e","s","s","i","o","n"," ">>
                                 \o str_int(syllabus_by_id(db, entries[i].syllabus_id).session_number)
                                 \o <<":"," ">>
                                 \o syllabus_by_id(db, entries[i].syllabus_id).session_title
                            ELSE IF entries[i].own_content_title \notin {Null, <<>>}
                            THEN entries[i].own_content_title
                            ELSE capitalize(entries[i].class_type) \o <<" ","c","l","a","s","s">>]]]

list_patterns ==
    << <<"l","i","s","t"," ","a","l","l"," ","f","a","c","u","l","t","y">>, <<"a","l","l"," ","f","a","c","u","l","t","y">>, <<"l","i","s","t"," ","f","a","c","u","l","t","y">>, <<"s","h","o","w"," ","f","a","c","u","l","t","y">>,
       <<"f","a","c","u","l","t","y"," ","l","i","s","t">>, <<"a","l","l"," ","f","a","c","u","l","t","i","e","s">>, <<"l","i","s","t"," ","a","l","l"," ","f","a","c","u","l","t","i","e","s">>, <<"l","i","s","t"," ","f","a","c","u","l","t","i","e","s">>,
       <<"c"," ","p","r","o","g","r","a","m","m","i","n","g"," ","f","a","c","u","l","t","i","e","s">>, <<"c"," ","p","r","o","g","r","a","m","m","i","n","g"," ","f","a","c","u","l","t","y">>, <<"p","r","o","g","r","a","m","m","i","n","g"," ","f","a","c","u","l","t","y">>,
       <<"w","h","o"," ","a","r","e"," ","t","h","e"," ","f","a","c","u","l","t","y">>, <<"w","h","o"," ","a","r","e"," ","t","h","e"," ","f","a","c","u","l","t","i","e","s">> >>

\* _is_list_faculty_query
_is_list_faculty_query(question_lower) == ContainsAny(question_lower, list_patterns)

\* _greeting_response
_greeting_response == [kind |-> "greeting"]

\* _help_response
_help_response == [kind |-> "help"]

\* the text _default_response returns, with the leading emoji left out and
\* each bullet character written as '*'
default_text ==
    <<"I"," ","c","o","u","l","d","n","'","t"," ","f","i","n","d"," ","a","n"," ","a","n","s","w","e","r"," ","t","o"," ","t","h","a","t"," ","q","u","e","s","t","i","o","n",".","\n","\n","T","r","y"," ","a","s","k","i","n","g"," ","a","b","o","u","t",":","\n","*"," ","T","o","d","a","y","'","s"," ","s","c","h","e","d","u","l","e","\n","*"," ","F","a","c","u","l","t","y"," ","i","n","f","o","r","m","a","t","i","o","n","\n","*"," ","L","a","b"," ","p","r","o","g","r","a","m","s"," ","(","e",".","g",".",","," ","\"","w","e","e","k"," ","3"," ","l","a","b","\"",")","\n","*"," ","S","e","s","s","i","o","n"," ","m","a","t","e","r","i","a","l","s"," ","(","e",".","g",".",","," ","\"","s","e","s","s","i","o","n"," ","5"," ","p","p","t","\"",")","\n","\n","O","r"," ","t","y","p","e"," ","*","*","h","e","l","p","*","*"," ","f","o","r"," ","m","o","r","e"," ","o","p","t","i","o","n","s","!">>

\* _default_response
_default_response == [kind |-> "default", text |-> default_text]

\* _get_schedule_response: one line per faculty, in the order of the faculty's
\* first row, with the department of that row and all the faculty's periods
_get_schedule_response(db, day_name, question_lower) ==
    LET entries == order_by_period(SelectSeq(timetable_joined(db), LAMBDA r :
                       r.entry.day = day_name))
        faculty_seen == unique([i \in 1..Len(entries) |-> entries[i].faculty.id])
        line(fid) ==
            LET mine == SelectSeq(entries, LAMBDA r : r.faculty.id = fid)
            IN  [faculty |-> fid, dept |-> mine[1].dept.code,
                 periods |-> sorted([i \in 1..Len(mine) |-> mine[i].period])]
    IN  IF entries = <<>>
        THEN [kind |-> "no_classes_for_day", day |-> day_name]
        ELSE [kind |-> "today_schedule", day |-> day_name,
              rows |-> [i \in 1..Len(faculty_seen) |-> line(faculty_seen[i])],
              total |-> Len(faculty_seen)]

\* _list_all_faculties
_list_all_faculties(db) ==
    LET fs == active_faculties(db)
    IN  IF fs = <<>> THEN [kind |-> "no_faculties_found"]
        ELSE [kind |-> "all_faculties", total |-> Len(fs),
              rows |-> [i \in 1..Len(fs) |->
                          [faculty |-> fs[i].id,
                           department |-> IF fs[i].department \in {Null, <<>>}
                                          THEN <<"N","/","A">> ELSE fs[i].department]]]

\* _get_lab_program
_get_lab_program(db, week_num) ==
    LET program == first(SelectSeq(db.lab_programs, LAMBDA p : p.program_number = week_num))
    IN  IF program = NoRow THEN [kind |-> "no_lab_program", week |-> week_num]
        ELSE [kind |-> "lab_program", week |-> week_num, title |-> program.program_title,
              description |-> program.description, moodle_url |-> program.moodle_url]

\* _get_session_ppt
_get_session_ppt(db, session_num) ==
    LET session == first(SelectSeq(db.syllabus, LAMBDA s : s.session_number = session_num))
    IN  IF session = NoRow THEN [kind |-> "no_session", session |-> session_num]
        ELSE [kind |-> "session_ppt", session |-> session_num,
              title |-> session.session_title, unit |-> session.unit,
              topics |-> session.topics,
              ppt |-> IF session.ppt_url \in {Null, <<>>} THEN <<"N","o","t"," ","a","v","a","i","l","a","b","l","e"," ","y","e","t">>
                      ELSE session.ppt_url]

stop_words ==
    { <<"t","h","e">>, <<"w","h","a","t">>, <<"h","o","w">>, <<"a","r","e">>, <<"i","s">>, <<"c","a","n">>, <<"d","o">>, <<"f","o","r">>, <<"i","n">>,
      <<"o","n">>, <<"a","t">>, <<"t","o">>, <<"a">>, <<"a","n">>, <<"o","f">>, <<"a","n","d">>, <<"o","r">>, <<"b","u","t">>, <<"w","h","o">>,
      <<"w","h","e","n">>, <<"w","h","e","r","e">>, <<"w","h","y">>, <<"t","h","i","s">>, <<"t","h","a","t">>, <<"i">>, <<"y","o","u">>, <<"w","e">>,
      <<"t","h","e","y">>, <<"i","t">>, <<"m","y">>, <<"y","o","u","r">> }

\* {w for w in set(s.lower().split()) if len(w) > 2 and w not in stop_words}
keywords(s) ==
    LET ws == split(lower(s))
    IN  {ws[i] : i \in {j \in 1..Len(ws) : Len(ws[j]) > 2 /\ ws[j] \notin stop_words}}

\* the score with the substring strategy tried in one direction only
faq_score_one_way(question, faq) ==
    LET faq_question_lower == lower(faq.question)
        faq_answer_lower == lower(faq.answer)
        question_words == keywords(question)
    IN  IF question = faq_question_lower THEN 1000
        ELSE IF Contains(question, faq_question_lower) THEN 500
        ELSE Cardinality(question_words \cap keywords(faq_question_lower)) * 10
             + 5 * Cardinality({w \in question_words : Contains(faq_answer_lower, w)})

\* the score the loop of _search_faqs gives one FAQ row
faq_score(question, faq) ==
    LET faq_question_lower == lower(faq.question)
        faq_answer_lower == lower(faq.answer)
        question_words == keywords(question)
    IN  IF question = faq_question_lower THEN 1000
        ELSE IF Contains(question, faq_question_lower) \/ Contains(faq_question_lower, question)
        THEN 500
        ELSE Cardinality(question_words \cap keywords(faq_question_lower)) * 10
             + 5 * Cardinality({w \in question_words : Contains(faq_answer_lower, w)})

\* the loop keeps the later of two rows with the same score
RECURSIVE faq_best_last(_, _, _)
faq_best_last(question, rows, n) ==
    IF n = 0 THEN [best_match |-> 0, best_score |-> 0]
    ELSE LET prev == faq_best_last(question, rows, n - 1)
             score == faq_score(question, rows[n])
         IN  IF score >= prev.best_score /\ score > 0
             THEN [best_match |-> n, best_score |-> score]
             ELSE prev

\* the loop of _search_faqs over rows 1..n: [best_match (an index, 0 for None), best_score]
RECURSIVE faq_best(_, _, _)
faq_best(question, rows, n) ==
    IF n = 0 THEN [best_match |-> 0, best_score |-> 0]
    ELSE LET prev == faq_best(question, rows, n - 1)
             score == faq_score(question, rows[n])
         IN  IF score > prev.best_score
             THEN [best_match |-> n, best_score |-> score]
             ELSE prev

\* _search_faqs
_search_faqs(db, question) ==
    LET rows == active_faqs(db)
        best == faq_best(question, rows, Len(rows))
    IN  IF rows = <<>> THEN None
        ELSE IF best.best_match # 0 /\ best.best_score >= 10
        THEN [kind |-> "faq", faq |-> rows[best.best_match].id,
              question |-> rows[best.best_match].question,
              answer |-> rows[best.best_match].answer]
        ELSE None

\* the index of the first digit of (\d+) when keyword\s*(?:optional)?\s*(\d+)
\* matches with the keyword at i, else 0; optional = <<>> for keyword\s*(\d+)
number_after_keyword(s, i, keyword, optional) ==
    LET a == skip_ws(s, i + Len(keyword))
        b == skip_ws(s, a + Len(optional))
    IN  IF ~OccursAt(s, keyword, i) THEN 0
        ELSE IF DigitAt(s, a) THEN a
        ELSE IF optional # <<>> /\ OccursAt(s, optional, a) /\ DigitAt(s, b) THEN b
        ELSE 0

\* the first keyword of the alternation (in the order written) that matches
\* at i: the index of the first digit of its (\d+), or 0
RECURSIVE alternation_at(_, _, _, _)
alternation_at(s, i, alternatives, optional) ==
    IF alternatives = <<>> THEN 0
    ELSE IF number_after_keyword(s, i, Head(alternatives), optional) > 0
    THEN number_after_keyword(s, i, Head(alternatives), optional)
    ELSE alternation_at(s, i, Tail(alternatives), optional)

\* re.search(r'(?:k1|k2|..)\s*(?:optional)?\s*(\d+)', s).group(1), or the
\* empty string when the search finds nothing
search_digits(s, alternatives, optional) ==
    LET starts == {i \in 1..Len(s) : alternation_at(s, i, alternatives, optional) > 0}
    IN  IF starts = {} THEN <<>>
        ELSE digits_at(s, alternation_at(s, Least(starts), alternatives, optional))

\* int(re.search(r'(?:k1|k2|..)\s*(?:optional)?\s*(\d+)', s).group(1)),
\* or -1 when the search finds nothing
search_number(s, alternatives, optional) ==
    IF search_digits(s, alternatives, optional) = <<>> THEN -1
    ELSE int(search_digits(s, alternatives, optional))

\* group(1) of rule 12 of process_question
lab_digits(question_lower) ==
    search_digits(question_lower, << <<"l","a","b">>, <<"w","e","e","k">>, <<"w">> >>, <<"p","r","o","g","r","a","m">>)

\* group(1) of rule 13 of process_question
session_digits(question_lower) ==
    search_digits(question_lower, << <<"s","e","s","s","i","o","n">>, <<"d","e","c","k">>, <<"p","p","t">>, <<"s","l","i","d","e">> >>, <<>>)

\* rule 12 of process_question: r'(?:lab|week|w)\s*(?:program)?\s*(\d+)'
lab_match(question_lower) ==
    search_number(question_lower, << <<"l","a","b">>, <<"w","e","e","k">>, <<"w">> >>, <<"p","r","o","g","r","a","m">>)

\* rule 13 of process_question: r'(?:session|deck|ppt|slide)\s*(\d+)'
session_match(question_lower) ==
    search_number(question_lower, << <<"s","e","s","s","i","o","n">>, <<"d","e","c","k">>, <<"p","p","t">>, <<"s","l","i","d","e">> >>, <<>>)

greetings ==
    << <<"h","i">>, <<"h","e","l","l","o">>, <<"h","e","y">>, <<"g","o","o","d"," ","m","o","r","n","i","n","g">>, <<"g","o","o","d"," ","a","f","t","e","r","n","o","o","n">>,
       <<"g","o","o","d"," ","e","v","e","n","i","n","g">>, <<"h","i","i">>, <<"h","i","i","i">> >>

\* rule 1 of process_question
is_greeting(question_lower) ==
    \E k \in 1..Len(greetings) :
        question_lower = greetings[k] \/ startswith(question_lower, greetings[k] \o <<" ">>)

\* rule 2 of process_question
is_help(question_lower) ==
    question_lower \in { <<"h","e","l","p">>, <<"?">>, <<"c","o","m","m","a","n","d","s">>, <<"w","h","a","t"," ","c","a","n"," ","y","o","u"," ","d","o">> }

\* process_question sends its queries one after the other, and the store
\* may change between two of them.  A read is what one query finds: db, the
\* store at the moment the query runs, with the tables the query does not
\* read left empty, and day, date.today() when the code reads the clock on
\* its way to the query (NoDate otherwise)
NoDate == -1

\* what the k-th query found; a query not sent yet is taken to find what the
\* last one found
found(rs, k) == IF k <= Len(rs) THEN rs[k] ELSE rs[Len(rs)]

\* what the handler of the rule that answers finds: the rows of its query.
\* The Faculty objects the query of rule 3 loaded are gone with the list
\* that held them, so the join loads the Faculty rows anew
joined_db(rs) == found(rs, 2).db

\* what rule 3 finds: the active faculties of its query, of which the handler
\* holds the one it names, and the rows of the query for the classes of that
\* faculty
named_db(rs) == [found(rs, 2).db EXCEPT !.faculties = rs[1].db.faculties]

\* FAQChatbot.process_question over the reads rs of its queries: the number
\* of the rule that answered (the numbers of the comments in the source) and
\* its answer.  rs[1] is date.today() of the first lines and the query for
\* the active faculties of rule 3; rs[2] and the following are the queries
\* of the rule that answers
FAQChatbot_cascade_at(rs, q) ==
    LET question_lower == strip(lower(q))
        day_name == get_day_name(found(rs, 1).day)
        joined == joined_db(rs)
        named == named_db(rs)
        faculty_response == _check_faculty_name_query(named, question_lower, day_name)
        dept_response == _check_department_query(joined, question_lower, day_name)
        lab_response == _check_lab_query(joined, question_lower, day_name)
        theory_response == _check_theory_query(joined, question_lower, day_name)
        period_response == _check_period_query(joined, question_lower, day_name)
        day_response == _check_day_query(joined, question_lower)
        faq_response == _search_faqs(found(rs, 2).db, question_lower)
    IN  IF is_greeting(question_lower) THEN [rule |-> 1, answer |-> _greeting_response]
        ELSE IF is_help(question_lower) THEN [rule |-> 2, answer |-> _help_response]
        ELSE IF faculty_response # None THEN [rule |-> 3, answer |-> faculty_response]
        ELSE IF dept_response # None THEN [rule |-> 4, answer |-> dept_response]
        ELSE IF lab_response # None THEN [rule |-> 5, answer |-> lab_response]
        ELSE IF theory_response # None THEN [rule |-> 6, answer |-> theory_response]
        ELSE IF _is_topics_query(question_lower)
        THEN [rule |-> 7,
              answer |-> _get_topics_today(joined, found(rs, 3).db, found(rs, 2).day,
                                           day_name)]
        ELSE IF _is_absent_query(question_lower)
        THEN [rule |-> 8, answer |-> _get_absent_faculty(joined, found(rs, 2).day, day_name)]
        ELSE IF _is_summary_query(question_lower)
        THEN [rule |-> 9,
              answer |-> _get_today_summary([k \in 1..6 |-> found(rs, k + 1).db], day_name)]
        ELSE IF _is_general_schedule_query(question_lower)
        THEN [rule |-> 10, answer |-> _get_schedule_response(joined, day_name, question_lower)]
        ELSE IF _is_list_faculty_query(question_lower)
        THEN [rule |-> 11, answer |-> _list_all_faculties(found(rs, 2).db)]
        ELSE IF lab_digits(question_lower) # <<>>
        THEN [rule |-> 12,
              answer |-> IF number_error(lab_digits(question_lower)) # None
                         THEN number_error(lab_digits(question_lower))
                         ELSE _get_lab_program(found(rs, 2).db, lab_match(question_lower))]
        ELSE IF session_digits(question_lower) # <<>>
        THEN [rule |-> 13,
              answer |-> IF number_error(session_digits(question_lower)) # None
                         THEN number_error(session_digits(question_lower))
                         ELSE _get_session_ppt(found(rs, 2).db, session_match(question_lower))]
        ELSE IF period_response # None THEN [rule |-> 14, answer |-> period_response]
        ELSE IF day_response # None THEN [rule |-> 15, answer |-> day_response]
        ELSE IF faq_response # None THEN [rule |-> 16, answer |-> faq_response]
        ELSE [rule |-> 17, answer |-> _default_response]

\* the number of queries process_question sends when c is its rule and answer
\* as far as the reads tell: none for a greeting or help; the query of rule 3
\* alone when int() or the binding of the number raises; the query of the
\* handler; and one get_period_time query for each row or each period a
\* schedule lists
queries_sent(c) ==
    LET a == c.answer
    IN  IF c.rule \in {1, 2} THEN 0
        ELSE IF a \in {ValueError, OverflowError} THEN 1
        ELSE IF a.kind \in {"faculty_today_schedule", "department_schedule"}
        THEN 2 + Len(a.rows)
        ELSE IF a.kind = "period_schedule" THEN 3
        ELSE IF a.kind \in {"day_schedule", "class_type_schedule"}
        THEN 2 + Cardinality({a.rows[i].period : i \in 1..Len(a.rows)})
        ELSE IF a.kind \in {"topics_overview_no_entries", "no_syllabus_information"} THEN 3
        ELSE IF a.kind = "today_summary" THEN 7
        ELSE 2

\* the tables the k-th query of process_question reads when the rule of the
\* given number answers; get_period_time reads PeriodTiming, which no route
\* writes
query_tables(rule, k) ==
    IF k = 1 THEN {"faculties"}
    ELSE IF rule = 3 THEN (IF k = 2 THEN {"timetable", "departments"} ELSE {})
    ELSE IF rule \in {4, 5, 6, 10, 14, 15}
    THEN (IF k = 2 THEN {"timetable", "faculties", "departments"} ELSE {})
    ELSE IF rule = 7
    THEN (IF k = 2 THEN {"daily_entries", "faculties", "departments", "syllabus"}
          ELSE {"syllabus"})
    ELSE IF rule = 8 THEN {"daily_entries", "faculties"}
    ELSE IF rule = 9
    THEN (IF k = 5 THEN {"faculties", "timetable"}
          ELSE IF k = 6 THEN {"faculties"} ELSE {"timetable"})
    ELSE IF rule = 11 THEN {"faculties"}
    ELSE IF rule = 12 THEN {"lab_programs"}
    ELSE IF rule = 13 THEN {"syllabus"}
    ELSE {"faqs"}

\* the code reads date.today() on its way to its k-th query: in the first
\* lines of process_question, and again in _get_topics_today and
\* _get_absent_faculty
reads_clock(rule, k) == k = 1 \/ (k = 2 /\ rule \in {7, 8})

\* FAQChatbot.process_question when every query finds the same store on the
\* same day
FAQChatbot_cascade(db, q, today_date) ==
    FAQChatbot_cascade_at(<<[db |-> db, day |-> today_date]>>, q)

\* FAQChatbot.process_question
process_question(db, q, today_date) == FAQChatbot_cascade(db, q, today_date).answer

\* process_chatbot_query: FAQChatbot(db).process_question(query)
process_chatbot_query(query, db, today_date) == process_question(db, query, today_date)

(***************************************************************************)
(* The routes of src/main.py that the chatbots depend on                   *)
(***************************************************************************)

\* bounds of the model
MaxPhrases == 2
MaxDay == 1
MaxFaqs == 2
MaxDailyEntries == 2
MaxFaqId == 2
MaxEdits == 2

\* no request is being answered
NoRequest == <<"no request">>

\* index.search was not called
NoSearch == [idx |-> 0, distance |-> 0]

\* the store as one value: what a Session gives access to
Store == [faculties |-> faculties, timetable |-> timetable,
          daily_entries |-> daily_entries, faqs |-> faqs,
          departments |-> departments, syllabus |-> syllabus,
          lab_programs |-> lab_programs]

\* the phrases the questions to /api/chatbot are made of
Phrases ==
    { <<"h","i">>, <<"s","a","t","h","i","s","h">>, <<"J","a","n","a","n","i">>, <<"s","c","h","e","d","u","l","e">>,
      <<"p","e","r","i","o","d"," ","3">>, <<"P","e","r","i","o","d"," ","1","2">>, <<"p","e","r","i","o","d"," ","0">>, <<"p","r","o","g","r","a","m","m","i","n","g">>, <<"r","a">> }

\* the questions over a set of phrases: up to n phrases joined by one space
QuestionsOver(phrases, n) ==
    {join(ws) : ws \in UNION {[1..k -> phrases] : k \in 0..n}}

Questions == QuestionsOver(Phrases, MaxPhrases)

\* the new primary key of a table
next_id(rows) == IF rows = <<>> THEN 1
                 ELSE 1 + CHOOSE m \in {rows[i].id : i \in 1..Len(rows)} :
                              \A i \in 1..Len(rows) : rows[i].id <= m

\* the tables of the store
Tables == {"faculties", "timetable", "daily_entries", "faqs", "departments",
           "syllabus", "lab_programs"}

\* what a query that a chatbot object sends now finds in the tables it
\* reads, with the date when the code has read the clock on its way to it
Read(by, tables, clock) ==
    [by |-> by,
     db |-> [t \in Tables |-> IF t \in tables THEN Store[t] ELSE <<>>],
     day |-> IF clock THEN today ELSE NoDate]

\* the web process serves requests: startup_event has returned
listening == server.pc = "running"

\* the request is being answered: process_chatbot_query has not returned
Pending == [kind |-> "Pending"]

\* the request in flight is one of /api/chatbot
public_request == data_query # NoRequest /\ search = NoSearch

\* the request in flight waits for a query of the chatbot object named
waits_for_query(by) == response = Pending /\ reads # <<>> /\ reads[1].by = by

\* the request in flight has been answered and its response not yet returned
Answered == data_query # NoRequest /\ response # Pending

\* process_question where the reads rs make c its rule and answer: it returns
\* when it has sent all the queries it sends for the question, and goes on to
\* the next one otherwise; a greeting and help are answered before any query
answer_after(rs, c) ==
    LET outcome == IF Len(rs) < queries_sent(c)
                   THEN [rule |-> 0, answer |-> Pending]
                   ELSE c
    IN  /\ reads' = IF queries_sent(c) = 0 THEN <<>> ELSE rs
        /\ response' = outcome.answer
        /\ cascade' = outcome.rule

\* process_question after its queries found rs
process_question_after(rs, q) == answer_after(rs, FAQChatbot_cascade_at(rs, q))

\* the reads rs and what the next query of the rule finds in the store now
next_query(rs, rule) ==
    Append(rs, Read("FAQChatbot", query_tables(rule, Len(rs) + 1),
                    reads_clock(rule, Len(rs) + 1)))

\* chatbot_query (POST /api/chatbot) with one of the questions qs, up to the
\* first query of process_question: the greeting and the help rule answer
\* without a query, the others follow the query of rule 3
chatbot_query_over(qs) ==
    /\ listening
    /\ data_query = NoRequest
    /\ \E q \in qs :
        /\ data_query' = q
        /\ process_question_after(
               <<Read("FAQChatbot", query_tables(0, 1), reads_clock(0, 1))>>, q)
    /\ UNCHANGED <<store_vars, edits, admin_vars, search, submissions>>

chatbot_query == chatbot_query_over(Questions)

\* process_question of the request in flight, from the result of one query
\* to the result of the next: self.db.query(...) finds the store as it is now
db_query ==
    /\ waits_for_query("FAQChatbot")
    /\ process_question_after(
           next_query(reads, FAQChatbot_cascade_at(reads, data_query).rule), data_query)
    /\ UNCHANGED <<store_vars, edits, admin_vars, data_query, search, submissions>>

\* the response is returned: the Query is discarded
chatbot_reply ==
    /\ Answered
    /\ data_query' = NoRequest
    /\ reads' = <<>>
    /\ response' = None
    /\ cascade' = 0
    /\ search' = NoSearch
    /\ UNCHANGED <<store_vars, edits, admin_vars, submissions>>

\* the request the worker thread w serves is in the route named
serving(w, route) == edits[w].route = route

\* the worker thread w goes on with a request to a route: the primary key of
\* the row its query loaded (0 when it loaded none), and the values it will
\* write
select(w, route, id, data) ==
    /\ listening
    /\ serving(w, "idle")
    /\ edits' = [edits EXCEPT ![w] = [route |-> route, id |-> id, data |-> data]]

\* the worker thread w returns the response
return(w) == edits' = [edits EXCEPT ![w] = NoEdit]

\* the salts bcrypt draws in the model
Salts == {1, 2}

\* a body with its password hashed
hashed(data, salt) ==
    IF "password" \in DOMAIN data
    THEN [data EXCEPT !.password = get_password_hash(@, salt)]
    ELSE data

\* the FacultyCreate bodies of the model: a second Sathish, and the email of
\* a faculty of _init_all_data
FacultyBodies ==
    { [name |-> <<"S","a","t","h","i","s","h"," ","K">>, email |-> <<"k",".","s","a","t","h","i","s","h","@","k","g","k","i","t","e",".","a","c",".","i","n">>,
       password |-> <<"K","g","i","s","l","@","1","2","3","4","5">>, phone |-> Null, image_url |-> Null,
       linkedin_url |-> Null, github_url |-> Null, department |-> <<"I","T","-","A">>,
       experience |-> Null, c_experience |-> Null, py_experience |-> Null,
       research_area |-> Null, personal_email |-> Null],
      [name |-> <<"J","a","n","a","n","i"," ","S">>, email |-> <<"j","a","n","a","n","i",".","s","@","k","g","k","i","t","e",".","a","c",".","i","n">>,
       password |-> <<"K","g","i","s","l","@","1","2","3","4","5">>, phone |-> Null, image_url |-> Null,
       linkedin_url |-> Null, github_url |-> Null, department |-> Null,
       experience |-> Null, c_experience |-> Null, py_experience |-> Null,
       research_area |-> Null, personal_email |-> Null] }

\* the ids the faculty routes of the model are called with
FacultyIds == {1}

\* the FacultyUpdate bodies of the model: a field that is None is left out
FacultyUpdates ==
    { [is_active |-> FALSE], [is_active |-> TRUE],
      [name |-> <<"S","a","t","h","i","s","h"," ","K","u","m","a","r">>, department |-> <<"I","T">>] }

\* super_admin_create_faculty (POST /api/super-admin/faculties): the query for
\* a faculty with the email, 400 when there is one; then the INSERT and the
\* commit, which fails when the email has been taken since
super_admin_create_faculty(w) ==
    \/ /\ \E data \in FacultyBodies, salt \in Salts :
            /\ ~\E i \in 1..Len(faculties) : faculties[i].email = data.email
            /\ select(w, "super_admin_create_faculty", 0, hashed(data, salt))
       /\ UNCHANGED <<store_vars, public_vars, admin_vars>>
    \/ /\ serving(w, "super_admin_create_faculty")
       /\ faculties' = commit_unique(faculties,
              Append(faculties,
                     [c \in {"id", "is_active"} \cup DOMAIN edits[w].data |->
                         IF c = "id" THEN next_id(faculties)
                         ELSE IF c = "is_active" THEN TRUE
                         ELSE edits[w].data[c]]),
              "email")
       /\ return(w)
       /\ UNCHANGED <<timetable, daily_entries, faqs, today, catalog_vars, public_vars,
                      admin_vars>>

\* super_admin_update_faculty (PUT /api/super-admin/faculties/{faculty_id})
\* with an id and a body of the given sets: the query for the faculty, 404 for
\* an unknown id, and the assignments of the fields that are not None; then
\* the commit
super_admin_update_faculty_over(w, ids, bodies) ==
    \/ /\ \E faculty_id \in ids, data \in bodies, salt \in Salts :
            /\ row_by_id(faculties, faculty_id) # NoRow
            /\ select(w, "super_admin_update_faculty", faculty_id,
                      changes(row_by_id(faculties, faculty_id), hashed(data, salt)))
       /\ UNCHANGED <<store_vars, public_vars, admin_vars>>
    \/ /\ serving(w, "super_admin_update_faculty")
       /\ faculties' = commit_unique(faculties,
              flush_update(faculties, edits[w].id, edits[w].data),
              "email")
       /\ return(w)
       /\ UNCHANGED <<timetable, daily_entries, faqs, today, catalog_vars, public_vars,
                      admin_vars>>

super_admin_update_faculty(w) ==
    super_admin_update_faculty_over(w, FacultyIds, FacultyUpdates)

\* super_admin_update_faculty with a body that gives is_active only
super_admin_update_faculty_active(w) ==
    super_admin_update_faculty_over(w, FacultyIds, {[is_active |-> FALSE], [is_active |-> TRUE]})

\* super_admin_update_faculty with the body that deactivates the faculty
super_admin_deactivate_faculty(w) ==
    super_admin_update_faculty_over(w, FacultyIds, {[is_active |-> FALSE]})

\* super_admin_delete_faculty (DELETE /api/super-admin/faculties/{faculty_id}):
\* the query for the faculty, 404 for an unknown id; then the DELETE of the
\* timetable rows and of the daily entries of the faculty, the DELETE of the
\* faculty and the commit, in one transaction
super_admin_delete_faculty(w) ==
    \/ /\ \E faculty_id \in FacultyIds :
            /\ row_by_id(faculties, faculty_id) # NoRow
            /\ select(w, "super_admin_delete_faculty", faculty_id, <<>>)
       /\ UNCHANGED <<store_vars, public_vars, admin_vars>>
    \/ /\ serving(w, "super_admin_delete_faculty")
       /\ timetable' = SelectSeq(timetable, LAMBDA e : e.faculty_id # edits[w].id)
       /\ daily_entries' =
              SelectSeq(daily_entries, LAMBDA e : e.faculty_id # edits[w].id)
       /\ faculties' = flush_delete(faculties, edits[w].id)
       /\ return(w)
       /\ UNCHANGED <<faqs, today, catalog_vars, public_vars, admin_vars>>

\* midnight passes: date.today() moves on
next_day ==
    /\ today < MaxDay
    /\ today' = today + 1
    /\ UNCHANGED <<faculties, timetable, daily_entries, faqs, catalog_vars, public_vars,
                   admin_vars, edits>>

\* the DailyEntryCreate bodies of the model; syllabus_id and lab_program_id
\* are 0 when they are None
DailyEntryBodies ==
    [department_id : {6}, period : {1}, class_type : { <<"t","h","e","o","r","y">> },
     syllabus_id : {0}, lab_program_id : {0}, lab_work_done : {Null},
     mini_project_progress : {Null}, is_own_content : {FALSE},
     own_content_title : {Null}, own_content_summary : {Null},
     summary : {Null}, is_absent : BOOLEAN, is_swapped : {FALSE},
     swapped_with : {Null}]

\* the FAQCreate bodies of the model; category is "general" when the body
\* does not give it
FaqBodies ==
    { [question |-> <<"W","h","a","t"," ","i","s"," ","a"," ","p","o","i","n","t","e","r","?">>, answer |-> <<"A"," ","p","o","i","n","t","e","r"," ","h","o","l","d","s"," ","a","n"," ","a","d","d","r","e","s","s">>,
       category |-> <<"g","e","n","e","r","a","l">>],
      [question |-> <<"P","o","i","n","t","e","r"," ","a","r","i","t","h","m","e","t","i","c">>, answer |-> <<"A","d","d"," ","t","o"," ","a"," ","p","o","i","n","t","e","r">>,
       category |-> <<"g","e","n","e","r","a","l">>],
      [question |-> <<"C","o","u","r","s","e"," ","c","o","d","e">>, answer |-> <<"T","h","e"," ","c","o","d","e"," ","i","s"," ","2","4","U","C","S","2","7","1">>,
       category |-> <<"g","e","n","e","r","a","l">>] }

\* the ids super_admin_update_faq is called with
FaqIds == 1..MaxFaqId

\* the ids super_admin_delete_faq is called with
FaqDeleteIds == {1}

\* the FAQUpdate bodies of the model: a field that is None is left out
FaqUpdates ==
    { [is_active |-> FALSE],
      [question |-> <<"P","o","i","n","t","e","r"," ","a","r","i","t","h","m","e","t","i","c">>, answer |-> <<"A","d","d"," ","t","o"," ","a"," ","p","o","i","n","t","e","r">>] }

\* super_admin_create_faq (POST /api/super-admin/faqs); a new FAQ is active
super_admin_create_faq ==
    /\ listening
    /\ Len(faqs) < MaxFaqs
    /\ next_id(faqs) <= MaxFaqId
    /\ \E data \in FaqBodies :
        faqs' = Append(faqs, [id |-> next_id(faqs), question |-> data.question,
                              answer |-> data.answer, category |-> data.category,
                              is_active |-> TRUE])
    /\ UNCHANGED <<faculties, timetable, daily_entries, today, catalog_vars, public_vars,
                   admin_vars, edits>>

\* super_admin_update_faq (PUT /api/super-admin/faqs/{faq_id}): the query for
\* the FAQ, 404 for an unknown id, and the assignments of the fields that
\* are not None; then the commit
super_admin_update_faq(w) ==
    \/ /\ \E faq_id \in FaqIds, data \in FaqUpdates :
            /\ row_by_id(faqs, faq_id) # NoRow
            /\ select(w, "super_admin_update_faq", faq_id,
                      changes(row_by_id(faqs, faq_id), data))
       /\ UNCHANGED <<store_vars, public_vars, admin_vars>>
    \/ /\ serving(w, "super_admin_update_faq")
       /\ faqs' = flush_update(faqs, edits[w].id, edits[w].data)
       /\ return(w)
       /\ UNCHANGED <<faculties, timetable, daily_entries, today, catalog_vars,
                      public_vars, admin_vars>>

\* super_admin_delete_faq (DELETE /api/super-admin/faqs/{faq_id}): the query
\* for the FAQ, 404 for an unknown id; then the DELETE and the commit
super_admin_delete_faq(w) ==
    \/ /\ \E faq_id \in FaqDeleteIds :
            /\ row_by_id(faqs, faq_id) # NoRow
            /\ select(w, "super_admin_delete_faq", faq_id, <<>>)
       /\ UNCHANGED <<store_vars, public_vars, admin_vars>>
    \/ /\ serving(w, "super_admin_delete_faq")
       /\ faqs' = flush_delete(faqs, edits[w].id)
       /\ return(w)
       /\ UNCHANGED <<faculties, timetable, daily_entries, today, catalog_vars,
                      public_vars, admin_vars>>

\* the questions about the daily entries
DailyQuestions ==
    { <<"w","h","o"," ","i","s"," ","a","b","s","e","n","t"," ","t","o","d","a","y">>, <<"A","b","s","e","n","t"," ","f","a","c","u","l","t","y","?">>, <<"t","o","p","i","c","s"," ","c","o","v","e","r","e","d"," ","t","o","d","a","y">>,
      <<"w","h","o"," ","i","s"," ","f","r","e","e"," ","t","o","d","a","y">>, <<"t","o","d","a","y","'","s"," ","s","u","m","m","a","r","y">>, <<"s","a","t","h","i","s","h">>, <<"c","s","e","-","a">>,
      <<"W","h","a","t"," ","t","o","p","i","c"," ","d","o","e","s"," ","S","a","t","h","i","s","h"," ","t","e","a","c","h","?">>, <<"D","o","e","s"," ","S","a","t","h","i","s","h"," ","h","a","v","e"," ","c","l","a","s","s","?">> }

\* chatbot_query with a question about the daily entries
chatbot_query_daily == chatbot_query_over(DailyQuestions)

\* the questions for the FAQ catalog
FaqQuestions ==
    { <<>>, <<" "," "," ">>, <<"w","h","a","t"," ","i","s">>, <<"p","o","i","n","t","e","r">>, <<"W","h","a","t"," ","i","s"," ","a"," ","p","o","i","n","t","e","r","?">>, <<"a","d","d","r","e","s","s"," ","p","o","i","n","t","e","r">>,
      <<"p","o","i","n","t","e","r"," ","c","o","d","e">>, <<"C","o","u","r","s","e">>, <<"a","r","i","t","h","m","e","t","i","c"," ","c","o","d","e">>, <<"t","h","e"," ","a","d","d","r","e","s","s">> }

\* chatbot_query with a question for the FAQ catalog
chatbot_query_faq == chatbot_query_over(FaqQuestions)
(***************************************************************************)
(* src/chatbot_service.py: ChatbotService, the keyword chatbot for admins  *)
(***************************************************************************)

\* the elements of the patterns: a literal, an optional literal (?:x)?,
\* \s* and the group (\d+)
Lit(v) == [t |-> "lit", v |-> v]
Opt(v) == [t |-> "opt", v |-> v]
Ws == [t |-> "ws", v |-> <<>>]
Num == [t |-> "num", v |-> <<>>]

\* the pattern, from its element k on, matches at i: the index where its
\* group (\d+) started (cap when it was matched before), else 0
RECURSIVE match_from(_, _, _, _, _)
match_from(s, i, pattern, k, cap) ==
    IF k > Len(pattern) THEN cap
    ELSE IF pattern[k].t = "lit"
    THEN (IF OccursAt(s, pattern[k].v, i)
          THEN match_from(s, i + Len(pattern[k].v), pattern, k + 1, cap) ELSE 0)
    ELSE IF pattern[k].t = "opt"
    THEN match_from(s, skip_opt(s, i, pattern[k].v), pattern, k + 1, cap)
    ELSE IF pattern[k].t = "ws"
    THEN match_from(s, skip_ws(s, i), pattern, k + 1, cap)
    ELSE (IF DigitAt(s, i)
          THEN match_from(s, skip_digits(s, i), pattern, k + 1, i) ELSE 0)

\* re.search(pattern, s).group(1), or the empty string when there is no match
re_search_digits(pattern, s) ==
    LET starts == {i \in 1..Len(s) : match_from(s, i, pattern, 1, 0) > 0}
    IN  IF starts = {} THEN <<>>
        ELSE digits_at(s, match_from(s, Least(starts), pattern, 1, 0))

\* int(re.search(pattern, s).group(1)), or -1 when there is no match
re_search(pattern, s) ==
    IF re_search_digits(pattern, s) = <<>> THEN -1 ELSE int(re_search_digits(pattern, s))

\* group(1) of the first pattern of a list that matches, or the empty string
RECURSIVE first_search_digits(_, _)
first_search_digits(patterns, s) ==
    IF patterns = <<>> THEN <<>>
    ELSE IF re_search_digits(Head(patterns), s) # <<>> THEN re_search_digits(Head(patterns), s)
    ELSE first_search_digits(Tail(patterns), s)

\* the number of the first pattern of a list that matches, or -1
first_search(patterns, s) ==
    IF first_search_digits(patterns, s) = <<>> THEN -1
    ELSE int(first_search_digits(patterns, s))

service_lab_patterns ==
    << << Lit(<<"l","a","b">>), Ws, Opt(<<"p","r","o","g","r","a","m">>), Ws, Opt(<<"f","o","r">>), Ws, Lit(<<"w","e","e","k">>), Ws, Num >>,
       << Lit(<<"w","e","e","k">>), Ws, Num, Ws, Lit(<<"l","a","b">>) >>,
       << Lit(<<"w">>), Num, Ws, Lit(<<"l","a","b">>) >>,
       << Lit(<<"i","n","l","a","b">>), Ws, Num >>,
       << Lit(<<"l","a","b">>), Ws, Num >> >>

service_session_patterns ==
    << << Lit(<<"s","e","s","s","i","o","n">>), Ws, Num >>,
       << Lit(<<"s","e","s">>), Ws, Num >>,
       << Lit(<<"d","e","c","k">>), Ws, Num >>,
       << Lit(<<"p","p","t">>), Ws, Opt(<<"f","o","r">>), Ws, Opt(<<"s","e","s","s","i","o","n">>), Ws, Num >>,
       << Lit(<<"s","l","i","d","e">>), Ws, Num >> >>

service_week_pattern == << Lit(<<"w","e","e","k">>), Ws, Num >>

\* db.query(Faculty).join(TimetableEntry, ...).filter(TimetableEntry.day == day)
\* .distinct().all(): the query has no ORDER BY; SQLite walks the timetable
\* and looks each faculty up, so a faculty stands where its first row of the
\* day stands in the timetable
scheduled_faculties_on(db, day) ==
    LET rows == SelectSeq(db.timetable, LAMBDA e :
                    e.day = day /\ faculty_by_id(db, e.faculty_id) # NoRow)
        ids == unique([i \in 1..Len(rows) |-> rows[i].faculty_id])
    IN  [i \in 1..Len(ids) |-> faculty_by_id(db, ids[i])]

\* ChatbotService._get_absent_faculties: the faculties with a class on the
\* day, all reported present; dbs[1] is what the query of the scheduled
\* faculties found and dbs[1 + i] what the query of the periods of the i-th
\* of them found
service_get_absent_faculties(dbs, day) ==
    LET scheduled_faculties == scheduled_faculties_on(dbs[1], day)
    IN  IF scheduled_faculties = <<>>
        THEN [kind |-> "service_no_classes_no_absences", day |-> day]
        ELSE [kind |-> "service_all_scheduled_present", day |-> day,
              total |-> Len(scheduled_faculties),
              rows |-> [i \in 1..Len(scheduled_faculties) |->
                  [faculty |-> scheduled_faculties[i].id,
                   periods |-> LET mine == SelectSeq(dbs[1 + i].timetable, LAMBDA e :
                                      e.faculty_id = scheduled_faculties[i].id /\ e.day = day)
                               IN  [k \in 1..Len(mine) |-> mine[k].period]]]]

\* ChatbotService._get_faculty_with_class_today
service_get_faculty_with_class_today(db, day) ==
    LET entries == order_by_period(SelectSeq(timetable_joined(db), LAMBDA r :
                       r.entry.day = day))
    IN  IF entries = <<>>
        THEN [kind |-> "service_no_classes_scheduled", day |-> day]
        ELSE [kind |-> "service_classes_on_day", day |-> day, rows |-> entries]

\* ChatbotService._get_todays_schedule: the rows grouped under dept.name, the
\* names in the order of their first row; departments of one name share a
\* group
service_get_todays_schedule(db, day) ==
    LET entries == order_by_period(SelectSeq(timetable_joined(db), LAMBDA r :
                       r.entry.day = day))
        dept_names == unique([i \in 1..Len(entries) |-> entries[i].dept.name])
    IN  IF entries = <<>>
        THEN [kind |-> "service_no_classes_for_day", day |-> day]
        ELSE [kind |-> "service_complete_schedule", day |-> day,
              rows |-> [d \in 1..Len(dept_names) |->
                  [dept_name |-> dept_names[d],
                   schedule |-> SelectSeq(entries, LAMBDA r :
                                    r.dept.name = dept_names[d])]]]

\* ChatbotService._get_lab_program
service_get_lab_program(db, week_num) ==
    LET program == first(SelectSeq(db.lab_programs, LAMBDA p : p.program_number = week_num))
    IN  IF program = NoRow
        THEN [kind |-> "service_no_lab_program", week |-> week_num]
        ELSE [kind |-> "service_lab_program", week |-> week_num, program |-> program.id,
              moodle_url |-> program.moodle_url]

\* ChatbotService._get_session_ppt
service_get_session_ppt(db, session_num) ==
    LET session == first(SelectSeq(db.syllabus, LAMBDA s : s.session_number = session_num))
    IN  IF session = NoRow
        THEN [kind |-> "service_no_session", session |-> session_num]
        ELSE [kind |-> "service_session", session |-> session_num,
              title |-> session.session_title, ppt_url |-> session.ppt_url]

\* ChatbotService._get_faculty_by_department
service_get_faculty_by_department(db, dept_code, day) ==
    LET entry == first(SelectSeq(timetable_joined(db), LAMBDA r :
                     r.dept.code = dept_code /\ r.entry.day = day))
    IN  IF entry = NoRow
        THEN [kind |-> "service_no_faculty_for_department", dept |-> dept_code, day |-> day]
        ELSE [kind |-> "service_faculty_for_department", dept |-> dept_code,
              faculty |-> entry.faculty.id]

\* ChatbotService._list_all_faculties
service_list_all_faculties(db) ==
    IF active_faculties(db) = <<>> THEN [kind |-> "service_no_faculties"]
    ELSE [kind |-> "service_all_faculties", total |-> Len(active_faculties(db)),
          rows |-> [i \in 1..Len(active_faculties(db)) |-> active_faculties(db)[i].id]]

\* the rows ordered by date, latest first; rows of one date keep their order
RECURSIVE order_by_date_desc(_)
order_by_date_desc(rows) ==
    IF rows = <<>> THEN <<>>
    ELSE LET m == CHOOSE i \in 1..Len(rows) :
                      /\ \A j \in 1..Len(rows) : rows[j].date <= rows[i].date
                      /\ \A j \in 1..(i - 1) : rows[j].date < rows[i].date
         IN  <<rows[m]>> \o order_by_date_desc(SubSeq(rows, 1, m - 1) \o SubSeq(rows, m + 1, Len(rows)))

\* ChatbotService._get_recent_daily_entries
service_get_recent_daily_entries(db) ==
    LET joined == SelectSeq(db.daily_entries, LAMBDA e :
                      /\ faculty_by_id(db, e.faculty_id) # NoRow
                      /\ department_by_id(db, e.department_id) # NoRow)
        ordered == order_by_date_desc(joined)
        entries == SubSeq(ordered, 1, IF Len(ordered) < 10 THEN Len(ordered) ELSE 10)
    IN  IF entries = <<>> THEN [kind |-> "service_no_recent_entries"]
        ELSE [kind |-> "service_recent_entries",
              rows |-> [i \in 1..Len(entries) |-> entries[i].id]]

service_get_help_message == [kind |-> "service_help"]

\* intent 5 of ChatbotService.process_question: the first code whose
\* letters occur in the question without its hyphens and spaces (its index
\* in service_dept_codes), or 0
service_dept_codes ==
    << <<"A","I","D","S","-","A">>, <<"A","I","D","S","-","B">>, <<"A","I","M","L","-","A">>, <<"A","I","M","L","-","B">>, <<"C","S","E","-","A">>, <<"C","S","E","-","B">>,
       <<"C","S","B","S">>, <<"C","Y","S">>, <<"E","C","E","-","A">>, <<"E","C","E","-","B">>, <<"I","T","-","A">>, <<"I","T","-","B">>, <<"M","E","C","H">>, <<"R","A">> >>

service_match_dept_code(question) ==
    LET question_normalized == remove_char(remove_char(question, "-"), " ")
        hit == {k \in 1..Len(service_dept_codes) :
                    Contains(question_normalized,
                        remove_char(remove_char(lower(service_dept_codes[k]), "-"), " "))}
    IN  IF hit = {} THEN 0 ELSE Least(hit)

service_days ==
    << <<"m","o","n","d","a","y">>, <<"t","u","e","s","d","a","y">>, <<"w","e","d","n","e","s","d","a","y">>, <<"t","h","u","r","s","d","a","y">>, <<"f","r","i","d","a","y">>, <<"s","a","t","u","r","d","a","y">>,
       <<"s","u","n","d","a","y">> >>

\* what each query of a handler that sends one query and then one for each
\* row found: the rows are those the first query found
found_by_each(rs, day) ==
    [k \in 1..(1 + Len(scheduled_faculties_on(rs[1].db, day))) |-> found(rs, k).db]

\* ChatbotService.process_question when its queries found rs, the clock read
\* before the first: the number of the intent that answered (the numbers of
\* the comments in the source, 11 for the default) and its answer
ChatbotService_cascade_at(rs, q) ==
    LET question == strip(lower(q))
        db == rs[1].db
        today_name == get_day_name(rs[1].day)
        has(words) == ContainsAny(question, words)
        week_num == first_search(service_lab_patterns, question)
        week_digits == first_search_digits(service_lab_patterns, question)
        session_num == first_search(service_session_patterns, question)
        session_num_digits == first_search_digits(service_session_patterns, question)
        moodle_week == re_search(service_week_pattern, question)
        moodle_digits == re_search_digits(service_week_pattern, question)
        code == service_match_dept_code(question)
        day == {k \in 1..7 : Contains(question, service_days[k])}
    IN  IF /\ has(<< <<"a","b","s","e","n","t">>, <<"l","e","a","v","e">>, <<"n","o","t"," ","p","r","e","s","e","n","t">>, <<"m","i","s","s","i","n","g">>, <<"a","w","a","y">> >>)
           /\ Contains(question, <<"t","o","d","a","y">>)
        THEN [rule |-> 0,
              answer |-> service_get_absent_faculties(found_by_each(rs, today_name), today_name)]
        ELSE IF /\ has(<< <<"w","h","o"," ","h","a","s">>, <<"w","h","o"," ","i","s"," ","h","a","v","i","n","g">>, <<"w","h","o"," ","g","o","t">>, <<"c","l","a","s","s","e","s"," ","t","o","d","a","y">>,
                          <<"t","e","a","c","h","i","n","g"," ","t","o","d","a","y">>, <<"c","l","a","s","s"," ","t","o","d","a","y">>, <<"s","c","h","e","d","u","l","e"," ","t","o","d","a","y">>,
                          <<"t","o","d","a","y"," ","c","l","a","s","s">>, <<"t","o","d","a","y"," ","s","c","h","e","d","u","l","e">> >>)
                /\ has(<< <<"c"," ","p","e","r","i","o","d">>, <<"c"," ","p","r","o","g","r","a","m","m","i","n","g">>, <<"p","e","r","i","o","d">> >>)
        THEN [rule |-> 1, answer |-> service_get_faculty_with_class_today(db, today_name)]
        ELSE IF /\ has(<< <<"w","h","o"," ","h","a","s">>, <<"w","h","o"," ","i","s"," ","h","a","v","i","n","g">>, <<"w","h","o"," ","g","o","t">>, <<"c","l","a","s","s","e","s"," ","t","o","d","a","y">>,
                          <<"t","e","a","c","h","i","n","g"," ","t","o","d","a","y">>, <<"c","l","a","s","s"," ","t","o","d","a","y">>, <<"s","c","h","e","d","u","l","e"," ","t","o","d","a","y">>,
                          <<"t","o","d","a","y"," ","c","l","a","s","s">>, <<"t","o","d","a","y"," ","s","c","h","e","d","u","l","e">> >>)
                /\ has(<< <<"s","c","h","e","d","u","l","e">>, <<"a","l","l">>, <<"c","o","m","p","l","e","t","e">> >>)
        THEN [rule |-> 1, answer |-> service_get_todays_schedule(db, today_name)]
        ELSE IF week_digits # <<>>
        THEN [rule |-> 2, answer |-> IF number_error(week_digits) # None
                                     THEN number_error(week_digits)
                                     ELSE service_get_lab_program(db, week_num)]
        ELSE IF /\ has(<< <<"p","p","t">>, <<"d","e","c","k">>, <<"s","e","s","s","i","o","n">>, <<"s","l","i","d","e">>, <<"p","r","e","s","e","n","t","a","t","i","o","n">> >>)
                /\ session_num_digits # <<>>
        THEN [rule |-> 3, answer |-> IF number_error(session_num_digits) # None
                                     THEN number_error(session_num_digits)
                                     ELSE service_get_session_ppt(db, session_num)]
        ELSE IF Contains(question, <<"m","o","o","d","l","e">>) /\ moodle_digits # <<>>
        THEN [rule |-> 4, answer |-> IF number_error(moodle_digits) # None
                                     THEN number_error(moodle_digits)
                                     ELSE service_get_lab_program(db, moodle_week)]
        ELSE IF /\ has(<< <<"f","a","c","u","l","t","y">>, <<"t","e","a","c","h","e","r">>, <<"t","e","a","c","h","i","n","g">>, <<"i","n","s","t","r","u","c","t","o","r">>, <<"w","h","o">> >>)
                /\ code # 0
        THEN [rule |-> 5, answer |->
                 service_get_faculty_by_department(db, service_dept_codes[code], today_name)]
        ELSE IF /\ has(<< <<"l","i","s","t">>, <<"s","h","o","w">>, <<"a","l","l">>, <<"e","v","e","r","y">>, <<"d","i","s","p","l","a","y">> >>)
                /\ has(<< <<"f","a","c","u","l","t">>, <<"t","e","a","c","h","e","r">>, <<"i","n","s","t","r","u","c","t","o","r">>, <<"s","t","a","f","f">> >>)
        THEN [rule |-> 6, answer |-> service_list_all_faculties(db)]
        ELSE IF has(<< <<"w","h","a","t"," ","w","a","s"," ","t","a","u","g","h","t">>, <<"w","h","a","t"," ","d","i","d">>, <<"r","e","c","e","n","t","l","y"," ","t","a","u","g","h","t">>,
                       <<"r","e","c","e","n","t"," ","c","l","a","s","s">>, <<"l","a","s","t"," ","c","l","a","s","s">>, <<"p","r","e","v","i","o","u","s"," ","c","l","a","s","s">>,
                       <<"t","e","a","c","h","i","n","g"," ","h","i","s","t","o","r","y">>, <<"c","l","a","s","s"," ","h","i","s","t","o","r","y">> >>)
        THEN [rule |-> 7, answer |-> service_get_recent_daily_entries(db)]
        ELSE IF day # {} /\ Contains(question, <<"s","c","h","e","d","u","l","e">>)
        THEN [rule |-> 8, answer |->
                 service_get_todays_schedule(db, capitalize(service_days[Least(day)]))]
        ELSE IF has(<< <<"h","e","l","p">>, <<"w","h","a","t"," ","c","a","n">>, <<"h","o","w"," ","t","o">>, <<"g","u","i","d","e">>, <<"c","o","m","m","a","n","d","s">> >>)
        THEN [rule |-> 9, answer |-> service_get_help_message]
        ELSE IF has(<< <<"h","i">>, <<"h","e","l","l","o">>, <<"h","e","y">>, <<"g","r","e","e","t","i","n","g","s">> >>)
        THEN [rule |-> 10, answer |-> [kind |-> "service_greeting"]]
        ELSE [rule |-> 11, answer |-> [kind |-> "service_default"]]

\* the number of queries process_question sends when a is its answer as far
\* as the reads tell: none when no handler with a query is reached or int() raises;
\* the query of the handler; one more for each scheduled faculty of
\* _get_absent_faculties, and one PeriodTiming query for each row of
\* _get_faculty_with_class_today and _get_todays_schedule
RECURSIVE total_len(_)
total_len(groups) ==
    IF groups = <<>> THEN 0 ELSE Len(Head(groups).schedule) + total_len(Tail(groups))

service_queries_sent(a) ==
        IF a.kind \in {"service_help", "service_greeting", "service_default",
                       "ValueError", "OverflowError"}
        THEN 0
        ELSE IF a.kind = "service_all_scheduled_present" THEN 1 + a.total
        ELSE IF a.kind = "service_classes_on_day" THEN 1 + Len(a.rows)
        ELSE IF a.kind = "service_complete_schedule" THEN 1 + total_len(a.rows)
        ELSE 1

\* the tables the k-th query of process_question reads when the intent of
\* the given number answers; PeriodTiming is a table no route writes
service_query_tables(intent, k) ==
    IF intent = 0 THEN (IF k = 1 THEN {"faculties", "timetable"} ELSE {"timetable"})
    ELSE IF intent \in {1, 8}
    THEN (IF k = 1 THEN {"timetable", "faculties", "departments"} ELSE {})
    ELSE IF intent \in {2, 4} THEN {"lab_programs"}
    ELSE IF intent = 3 THEN {"syllabus"}
    ELSE IF intent = 5 THEN {"timetable", "faculties", "departments"}
    ELSE IF intent = 6 THEN {"faculties"}
    ELSE IF intent = 7 THEN {"daily_entries", "faculties", "departments"}
    ELSE {}

\* ChatbotService.process_question when every query finds the same store
ChatbotService_cascade(db, q, today_date) ==
    ChatbotService_cascade_at(<<[db |-> db, day |-> today_date]>>, q)

\* ChatbotService.process_question
ChatbotService_process_question(db, q, today_date) ==
    ChatbotService_cascade(db, q, today_date).answer
(***************************************************************************)
(* src/chatbot_semantic.py: SemanticChatbotService, the chatbot behind     *)
(* /api/admin/chatbot                                                      *)
(***************************************************************************)

\* self.intents of build_index: the catalog of intents and example questions
intents ==
    <<
      [intent |-> "get_schedule_today",
       examples |-> <<
          "Who has C period today?",
          "Who is teaching today?",
          "Show today's classes",
          "Who has class today?",
          "Classes for today",
          "Today's schedule",
          "Which faculty is teaching today?",
          "What are the C programming classes today?" >>],
      [intent |-> "get_complete_schedule",
       examples |-> <<
          "Show today's complete schedule",
          "Full schedule for today",
          "All classes today",
          "Today's timetable",
          "Complete timetable",
          "Show all periods today" >>],
      [intent |-> "get_absent_faculty",
       examples |-> <<
          "Who is absent today?",
          "Which faculty is absent?",
          "Show absent teachers",
          "Who's not present today?",
          "Faculty on leave today",
          "Missing faculty today" >>],
      [intent |-> "get_lab_program",
       examples |-> <<
          "Lab program for week 3",
          "Show week 5 lab",
          "What's the lab for week 2?",
          "Week 7 lab program",
          "Lab assignment week 4",
          "Show lab 6" >>],
      [intent |-> "get_session_ppt",
       examples |-> <<
          "PPT for session 3",
          "Show deck 5",
          "Session 7 slides",
          "Presentation for session 2",
          "Slide deck 4",
          "Session 6 PPT" >>],
      [intent |-> "get_faculty_by_dept",
       examples |-> <<
          "Who is teaching AIDS-A?",
          "Faculty for CSE-B",
          "Show teacher for AIML-A",
          "Who teaches IT-A?",
          "Faculty assigned to ECE-B",
          "Teacher for CYS department" >>],
      [intent |-> "get_faculty_schedule",
       examples |-> <<
          "When does Sathish have class?",
          "What is Ravi's schedule?",
          "Show Priya's timetable",
          "When will Kumar teach?",
          "What days does Meena have classes?",
          "Schedule for faculty Arun",
          "When is teacher John's class?",
          "What's the timetable for professor Sathish?" >>],
      [intent |-> "list_all_faculty",
       examples |-> <<
          "List all faculties",
          "Show all teachers",
          "Display faculty list",
          "All instructors",
          "Faculty members",
          "Show all staff" >>],
      [intent |-> "get_teaching_history",
       examples |-> <<
          "What was taught recently?",
          "Recent classes",
          "Show teaching history",
          "What did faculty teach?",
          "Recent topics covered",
          "Last class content" >>],
      [intent |-> "help",
       examples |-> <<
          "Help",
          "What can you do?",
          "How to use this?",
          "Commands",
          "Guide me",
          "What are your features?" >>],
      [intent |-> "greeting",
       examples |-> <<
          "Hello",
          "Hi",
          "Hey there",
          "Good morning",
          "Greetings",
          "Hi bot" >>] >>

\* SentenceTransformer.encode of one text: the vector stands for the text
encode(text) == <<"embedding", text>>

\* all_examples of build_index: the examples of all intents, in order
RECURSIVE all_examples_of(_)
all_examples_of(catalog) ==
    IF catalog = <<>> THEN <<>>
    ELSE Head(catalog).examples \o all_examples_of(Tail(catalog))

\* one label for each intent instead of one for each example
RECURSIVE intent_map_per_intent(_)
intent_map_per_intent(catalog) ==
    IF catalog = <<>> THEN <<>>
    ELSE <<Head(catalog).intent>> \o intent_map_per_intent(Tail(catalog))

\* intent_map of build_index: the intent of each example, in the same order
RECURSIVE intent_map_of(_)
intent_map_of(catalog) ==
    IF catalog = <<>> THEN <<>>
    ELSE [i \in 1..Len(Head(catalog).examples) |-> Head(catalog).intent]
         \o intent_map_of(Tail(catalog))

\* a file that does not exist, and one whose writing was cut short
NoFile == [exists |-> FALSE, complete |-> FALSE, index |-> <<>>, intent_map |-> <<>>]
Truncated == [exists |-> TRUE, complete |-> FALSE, index |-> <<>>, intent_map |-> <<>>]

\* no SemanticChatbotService object (semantic_chatbot = None)
NoObject == [loaded |-> FALSE, index |-> <<>>, intent_map |-> <<>>, db |-> 0]

\* build_index, up to the writes: the object with index and intent_map set
build_index(db) ==
    LET all_examples == all_examples_of(intents)
        embeddings == [i \in 1..Len(all_examples) |-> encode(all_examples[i])]
    IN  [loaded |-> TRUE, index |-> embeddings, intent_map |-> intent_map_of(intents),
         db |-> db]

\* load_index: the object read back from the two files
load_index(db, faiss_file, pkl_file) ==
    [loaded |-> TRUE, index |-> faiss_file.index, intent_map |-> pkl_file.intent_map,
     db |-> db]

\* re.search(r'\d+', question).group(), or the empty string
first_digits(question) ==
    LET starts == {i \in 1..Len(question) : DigitAt(question, i)}
    IN  IF starts = {} THEN <<>> ELSE digits_at(question, Least(starts))

\* int(re.search(r'\d+', question).group()), or -1
first_number(question) ==
    IF first_digits(question) = <<>> THEN -1 ELSE int(first_digits(question))

\* the get_faculty_by_dept branch of process_question: the first code whose
\* letters occur in the question without its hyphens and spaces, or 0
semantic_match_dept_code(question) ==
    LET question_normalized == remove_char(remove_char(lower(question), "-"), " ")
        hit == {k \in 1..Len(service_dept_codes) :
                    Contains(question_normalized,
                        remove_char(remove_char(lower(service_dept_codes[k]), "-"), " "))}
    IN  IF hit = {} THEN 0 ELSE Least(hit)

\* SemanticChatbotService._get_faculty_schedule_by_name
days_order ==
    << <<"M","o","n","d","a","y">>, <<"T","u","e","s","d","a","y">>, <<"W","e","d","n","e","s","d","a","y">>, <<"T","h","u","r","s","d","a","y">>, <<"F","r","i","d","a","y">>, <<"S","a","t","u","r","d","a","y">> >>

semantic_matched_faculty(db, question) ==
    LET fs == active_faculties(db)
        hit == {i \in 1..Len(fs) : name_part_in(fs[i], lower(question))}
    IN  IF hit = {} THEN NoRow ELSE fs[Least(hit)]

\* db is what the query of the active faculties found, later what the query
\* of the rows of the matched one found
semantic_get_faculty_schedule_by_name(db, later, question) ==
    LET matched_faculty == semantic_matched_faculty(db, question)
        entries == SelectSeq(timetable_with_department(later), LAMBDA r :
                       r.entry.faculty_id = matched_faculty.id)
        shown == SelectSeq(days_order, LAMBDA d :
                     \E i \in 1..Len(entries) : entries[i].entry.day = d)
    IN  IF matched_faculty = NoRow THEN [kind |-> "semantic_faculty_not_found"]
        ELSE IF entries = <<>>
        THEN [kind |-> "semantic_faculty_no_classes", faculty |-> matched_faculty.id]
        ELSE [kind |-> "semantic_faculty_schedule", faculty |-> matched_faculty.id,
              rows |-> [d \in 1..Len(shown) |->
                  [day |-> shown[d],
                   periods |-> LET mine == SelectSeq(entries, LAMBDA r : r.entry.day = shown[d])
                               IN  sorted([i \in 1..Len(mine) |-> mine[i].entry.period])]]]

\* SemanticChatbotService._get_absent_faculties; dbs[1] is what the query of
\* the scheduled faculties found and dbs[1 + i] what the query of the
\* periods of the i-th of them found
semantic_get_absent_faculties(dbs, day) ==
    LET scheduled_faculties == scheduled_faculties_on(dbs[1], day)
    IN  IF scheduled_faculties = <<>>
        THEN [kind |-> "semantic_no_classes_no_absences", day |-> day]
        ELSE [kind |-> "semantic_all_scheduled_present", day |-> day,
              total |-> Len(scheduled_faculties),
              rows |-> [i \in 1..Len(scheduled_faculties) |->
                  [faculty |-> scheduled_faculties[i].id,
                   periods |-> LET mine == SelectSeq(dbs[1 + i].timetable, LAMBDA e :
                                      e.faculty_id = scheduled_faculties[i].id /\ e.day = day)
                               IN  [k \in 1..Len(mine) |-> mine[k].period]]]]

\* SemanticChatbotService._get_faculty_with_class_today: one line for each
\* faculty, in the order of the faculty's first row
semantic_get_faculty_with_class_today(db, day) ==
    LET entries == order_by_period(SelectSeq(timetable_joined(db), LAMBDA r :
                       r.entry.day = day))
        faculty_seen == unique([i \in 1..Len(entries) |-> entries[i].faculty.id])
    IN  IF entries = <<>>
        THEN [kind |-> "semantic_no_classes_scheduled", day |-> day]
        ELSE [kind |-> "semantic_faculties_with_classes", day |-> day,
              rows |-> [k \in 1..Len(faculty_seen) |->
                  LET mine == SelectSeq(entries, LAMBDA r : r.faculty.id = faculty_seen[k])
                  IN  [faculty |-> faculty_seen[k],
                       periods |-> sorted([i \in 1..Len(mine) |-> mine[i].period])]]]

\* SemanticChatbotService._get_lab_program
semantic_get_lab_program(db, week_num) ==
    LET program == first(SelectSeq(db.lab_programs, LAMBDA p : p.program_number = week_num))
    IN  IF program = NoRow
        THEN [kind |-> "semantic_no_lab_program", week |-> week_num]
        ELSE [kind |-> "semantic_lab_program", week |-> week_num, program |-> program.id,
              moodle_url |-> program.moodle_url]

\* SemanticChatbotService._get_session_ppt: a Syllabus row has no attribute
\* 'topic', so reading it raises AttributeError
semantic_get_session_ppt(db, session_num) ==
    LET session == first(SelectSeq(db.syllabus, LAMBDA s : s.session_number = session_num))
    IN  IF session = NoRow
        THEN [kind |-> "semantic_no_session", session |-> session_num]
        ELSE [kind |-> "AttributeError", session |-> session_num]

\* SemanticChatbotService._get_faculty_by_department
semantic_get_faculty_by_department(db, dept_code, day) ==
    LET entry == first(SelectSeq(timetable_joined(db), LAMBDA r :
                     r.dept.code = dept_code /\ r.entry.day = day))
    IN  IF entry = NoRow
        THEN [kind |-> "semantic_no_faculty_for_department", dept |-> dept_code, day |-> day]
        ELSE [kind |-> "semantic_faculty_for_department", dept |-> dept_code,
              faculty |-> entry.faculty.id]

\* SemanticChatbotService._list_all_faculties
semantic_list_all_faculties(db) ==
    IF active_faculties(db) = <<>> THEN [kind |-> "semantic_no_faculties"]
    ELSE [kind |-> "semantic_all_faculties", total |-> Len(active_faculties(db)),
          rows |-> [i \in 1..Len(active_faculties(db)) |-> active_faculties(db)[i].id]]

\* SemanticChatbotService._get_todays_schedule
semantic_get_todays_schedule(db, day) ==
    LET entries == order_by_period(SelectSeq(timetable_joined(db), LAMBDA r :
                       r.entry.day = day))
    IN  IF entries = <<>>
        THEN [kind |-> "semantic_no_classes_for_day", day |-> day]
        ELSE [kind |-> "semantic_complete_schedule", day |-> day, rows |-> entries]

\* SemanticChatbotService._get_recent_daily_entries, with its limit of 5
semantic_get_recent_daily_entries(db) ==
    LET joined == SelectSeq(db.daily_entries, LAMBDA e :
                      /\ faculty_by_id(db, e.faculty_id) # NoRow
                      /\ department_by_id(db, e.department_id) # NoRow)
        ordered == order_by_date_desc(joined)
        entries == SubSeq(ordered, 1, IF Len(ordered) < 5 THEN Len(ordered) ELSE 5)
    IN  IF entries = <<>> THEN [kind |-> "semantic_no_recent_entries"]
        ELSE [kind |-> "semantic_recent_entries",
              rows |-> [i \in 1..Len(entries) |-> entries[i].id]]

semantic_get_help_message == [kind |-> "semantic_help"]

\* confidence_threshold of process_question, in tenths: 0.8
confidence_threshold == 8

\* a distance equal to the threshold is rejected too
poor_match_at_threshold(best_distance) == best_distance >= confidence_threshold

\* if best_distance > confidence_threshold
poor_match(best_distance) == best_distance > confidence_threshold

\* SemanticChatbotService.process_question once index.search has returned
\* the position best_match_idx (from 1) and the distance best_distance (in
\* tenths) of the nearest example, when the queries of its handler found
\* rs, the clock read before the first
semantic_process_question_at(rs, self, question, best_match_idx, best_distance) ==
    LET intent == self.intent_map[best_match_idx]
        db == rs[1].db
        today_name == get_day_name(rs[1].day)
        number == first_number(question)
        code == semantic_match_dept_code(question)
    IN  IF best_match_idx \notin 1..Len(self.intent_map) THEN [kind |-> "IndexError"]
        ELSE IF poor_match(best_distance) THEN [kind |-> "semantic_not_understood"]
        ELSE IF intent = "get_schedule_today"
        THEN semantic_get_faculty_with_class_today(db, today_name)
        ELSE IF intent = "get_complete_schedule"
        THEN semantic_get_todays_schedule(db, today_name)
        ELSE IF intent = "get_absent_faculty"
        THEN semantic_get_absent_faculties(found_by_each(rs, today_name), today_name)
        ELSE IF intent = "get_lab_program"
        THEN (IF first_digits(question) = <<>> THEN [kind |-> "semantic_specify_week"]
              ELSE IF number_error(first_digits(question)) # None
              THEN number_error(first_digits(question))
              ELSE semantic_get_lab_program(db, number))
        ELSE IF intent = "get_session_ppt"
        THEN (IF first_digits(question) = <<>> THEN [kind |-> "semantic_specify_session"]
              ELSE IF number_error(first_digits(question)) # None
              THEN number_error(first_digits(question))
              ELSE semantic_get_session_ppt(db, number))
        ELSE IF intent = "get_faculty_by_dept"
        THEN (IF code # 0
              THEN semantic_get_faculty_by_department(db, service_dept_codes[code], today_name)
              ELSE [kind |-> "semantic_specify_department"])
        ELSE IF intent = "get_faculty_schedule"
        THEN semantic_get_faculty_schedule_by_name(db, found(rs, 2).db, question)
        ELSE IF intent = "list_all_faculty" THEN semantic_list_all_faculties(db)
        ELSE IF intent = "get_teaching_history" THEN semantic_get_recent_daily_entries(db)
        ELSE IF intent = "help" THEN semantic_get_help_message
        ELSE IF intent = "greeting" THEN [kind |-> "semantic_greeting"]
        ELSE semantic_get_help_message

\* SemanticChatbotService.process_question when every query finds the same
\* store
semantic_process_question(db, self, question, today_date, best_match_idx, best_distance) ==
    semantic_process_question_at(<<[db |-> db, day |-> today_date]>>, self, question,
                                 best_match_idx, best_distance)

\* the number of queries process_question sends when a is its answer as far
\* as the reads tell: none when no handler with a query is reached or int()
\* raises; two of _get_faculty_schedule_by_name when a faculty is matched;
\* one more for each scheduled faculty of _get_absent_faculties
semantic_queries_sent(a) ==
        IF a.kind \in {"semantic_not_understood", "semantic_specify_week",
                       "semantic_specify_session", "semantic_specify_department",
                       "semantic_help", "semantic_greeting", "IndexError", "ValueError",
                       "OverflowError"}
        THEN 0
        ELSE IF a.kind \in {"semantic_faculty_no_classes", "semantic_faculty_schedule"}
        THEN 2
        ELSE IF a.kind = "semantic_all_scheduled_present" THEN 1 + a.total
        ELSE 1

\* the tables the k-th query of the handler of an intent reads
semantic_query_tables(intent, k) ==
    IF intent \in {"get_schedule_today", "get_complete_schedule", "get_faculty_by_dept"}
    THEN {"timetable", "faculties", "departments"}
    ELSE IF intent = "get_absent_faculty"
    THEN (IF k = 1 THEN {"faculties", "timetable"} ELSE {"timetable"})
    ELSE IF intent = "get_lab_program" THEN {"lab_programs"}
    ELSE IF intent = "get_session_ppt" THEN {"syllabus"}
    ELSE IF intent = "get_faculty_schedule"
    THEN (IF k = 1 THEN {"faculties"} ELSE {"timetable", "departments"})
    ELSE IF intent = "list_all_faculty" THEN {"faculties"}
    ELSE IF intent = "get_teaching_history" THEN {"daily_entries", "faculties", "departments"}
    ELSE {}

(***************************************************************************)
(* The admin chatbots at work: ChatbotService.process_question, the        *)
(* startup of the web process and the route /api/admin/chatbot             *)
(***************************************************************************)

\* the worker threads that serve /api/admin/chatbot at the same time
MaxRequests == 2

\* the questions to ChatbotService, some for each intent
ServiceQuestions ==
    { <<"w","h","o"," ","t","e","a","c","h","e","s"," ","p","r","o","g","r","a","m","m","i","n","g">>, <<"w","h","o"," ","t","e","a","c","h","e","s"," ","R","A">>, <<"f","a","c","u","l","t","y"," ","c","s","e","-","a">>, <<"m","e","c","h">>,
      <<"w","h","o"," ","i","s"," ","a","b","s","e","n","t"," ","t","o","d","a","y">>, <<"w","h","o"," ","h","a","s"," ","p","e","r","i","o","d"," ","t","o","d","a","y">>, <<"s","c","h","e","d","u","l","e"," ","t","o","d","a","y">>,
      <<"m","o","n","d","a","y"," ","s","c","h","e","d","u","l","e">>, <<"w","e","e","k"," ","3"," ","l","a","b">>, <<"p","p","t"," ","f","o","r"," ","s","e","s","s","i","o","n"," ","2">>, <<"m","o","o","d","l","e"," ","w","e","e","k"," ","1","1">>,
      <<"l","i","s","t"," ","a","l","l"," ","f","a","c","u","l","t","y">>, <<"w","h","a","t"," ","w","a","s"," ","t","a","u","g","h","t">>, <<"h","e","l","p">>, <<"h","e","l","l","o">> }

\* process_question where the reads rs make c its intent and answer: it
\* returns when it has sent all the queries it sends for the question
service_answer_after(rs, c) ==
    LET outcome == IF Len(rs) < service_queries_sent(c.answer)
                   THEN [rule |-> 0, answer |-> Pending]
                   ELSE c
    IN  /\ reads' = IF service_queries_sent(c.answer) = 0 THEN <<>> ELSE rs
        /\ response' = outcome.answer
        /\ cascade' = outcome.rule

\* process_question after its queries found rs
service_question_after(rs, q) == service_answer_after(rs, ChatbotService_cascade_at(rs, q))

\* the reads rs and what the next query of the intent finds in the store now;
\* the clock is read in the first lines of process_question
service_next_query(rs, intent) ==
    Append(rs, Read("ChatbotService", service_query_tables(intent, Len(rs) + 1), rs = <<>>))

\* ChatbotService(db).process_question(question) for an admin, up to the
\* first query of its handler
service_query ==
    /\ data_query = NoRequest
    /\ \E q \in ServiceQuestions :
        /\ data_query' = q
        /\ service_question_after(
               service_next_query(
                   <<>>, ChatbotService_cascade_at(<<Read("ChatbotService", {}, TRUE)>>, q).rule),
               q)
    /\ UNCHANGED <<store_vars, edits, admin_vars, search, submissions>>

\* process_question of the request in flight, from the result of one query
\* to the result of the next
service_db_query ==
    /\ waits_for_query("ChatbotService")
    /\ service_question_after(
           service_next_query(reads, ChatbotService_cascade_at(reads, data_query).rule),
           data_query)
    /\ UNCHANGED <<store_vars, edits, admin_vars, data_query, search, submissions>>

\* what os.path.exists told __init__ about the two files
Found == [index |-> index_file.exists, intents |-> intents_file.exists]

\* the web process is not running
Stopped == [pc |-> "stopped", self |-> NoObject, found |-> [index |-> FALSE, intents |-> FALSE]]

\* a worker thread that serves no request
Idle == [pc |-> "idle", query |-> <<>>, db |-> 0, day |-> NoDate, search |-> NoSearch,
         reads |-> <<>>, used |-> {}, answer |-> None, consulted |-> <<>>]

\* startup_event, SemanticChatbotService.__init__ when both files exist:
\* load_index reads them back; db is the dummy session 0
startup_load_index ==
    /\ server.pc = "stopped"
    /\ index_file.exists /\ intents_file.exists
    /\ index_file.complete /\ intents_file.complete
    /\ semantic_chatbot' = load_index(0, index_file, intents_file)
    /\ server' = [pc |-> "running", self |-> NoObject, found |-> Found]
    /\ UNCHANGED <<store_vars, edits, public_vars, index_file, intents_file, requests>>

\* startup_event when both files exist and one of them was cut short:
\* faiss.read_index or pickle.load raises and the process does not start
startup_load_fails ==
    /\ server.pc = "stopped"
    /\ index_file.exists /\ intents_file.exists
    /\ ~(index_file.complete /\ intents_file.complete)
    /\ server' = [pc |-> "failed", self |-> NoObject, found |-> Found]
    /\ UNCHANGED <<store_vars, edits, public_vars, index_file, intents_file, semantic_chatbot,
                   requests>>

\* startup_event when a file is missing: build_index, up to its writes
startup_build_index ==
    /\ server.pc = "stopped"
    /\ ~(index_file.exists /\ intents_file.exists)
    /\ server' = [pc |-> "building", self |-> build_index(0), found |-> Found]
    /\ UNCHANGED <<store_vars, edits, public_vars, index_file, intents_file, semantic_chatbot,
                   requests>>

\* build_index: faiss.write_index(self.index, self.index_file)
build_write_index ==
    /\ server.pc = "building"
    /\ index_file' = [exists |-> TRUE, complete |-> TRUE, index |-> server.self.index,
                      intent_map |-> <<>>]
    /\ server' = [server EXCEPT !.pc = "index_written"]
    /\ UNCHANGED <<store_vars, edits, public_vars, intents_file, semantic_chatbot, requests>>

\* build_index: pickle.dump of intent_map; then __init__ returns and
\* startup_event binds the global
build_write_intents ==
    /\ server.pc = "index_written"
    /\ intents_file' = [exists |-> TRUE, complete |-> TRUE, index |-> <<>>,
                        intent_map |-> server.self.intent_map]
    /\ semantic_chatbot' = server.self
    /\ server' = [server EXCEPT !.pc = "running", !.self = NoObject]
    /\ UNCHANGED <<store_vars, edits, public_vars, index_file, requests>>

\* the process is interrupted: its memory is lost, the files stay; a file
\* it was writing may be left cut short
interrupt ==
    /\ server.pc \in {"building", "index_written", "running"}
    /\ \E cut \in BOOLEAN :
        /\ index_file' = IF cut /\ server.pc = "building" THEN Truncated ELSE index_file
        /\ intents_file' = IF cut /\ server.pc = "index_written" THEN Truncated
                           ELSE intents_file
    /\ server' = Stopped
    /\ semantic_chatbot' = NoObject
    /\ requests' = [r \in 1..MaxRequests |-> Idle]
    /\ edits' = [w \in 1..MaxEdits |-> NoEdit]
    /\ submissions' = [r \in 1..MaxSubmissions |-> NoSubmission]
    /\ data_query' = NoRequest
    /\ reads' = <<>>
    /\ response' = None
    /\ cascade' = 0
    /\ search' = NoSearch
    /\ UNCHANGED store_vars

\* a file is removed while the process is down
remove_file ==
    /\ server.pc \in {"stopped", "failed"}
    /\ \/ index_file.exists /\ index_file' = NoFile /\ UNCHANGED intents_file
       \/ intents_file.exists /\ intents_file' = NoFile /\ UNCHANGED index_file
    /\ server' = Stopped
    /\ UNCHANGED <<store_vars, edits, public_vars, semantic_chatbot, requests>>

\* the questions of the admins
AdminQuestions ==
    { <<"w","h","o"," ","t","e","a","c","h","e","s"," ","p","r","o","g","r","a","m","m","i","n","g">>, <<"W","h","e","n"," ","d","o","e","s"," ","S","a","t","h","i","s","h"," ","h","a","v","e"," ","c","l","a","s","s","?">>, <<"H","e","l","l","o">> }

\* the examples index.search finds nearest, and the distances, in tenths
NearestExamples == {"Who teaches IT-A?", "When does Sathish have class?", "Hello"}
Distances == {8, 9}

\* admin_chatbot_query is entered by worker r: Depends(get_db) has opened
\* the session of the request
admin_chatbot_query(r) ==
    /\ server.pc = "running"
    /\ requests[r].pc = "idle"
    /\ \E q \in AdminQuestions :
        requests' = [requests EXCEPT ![r] = [Idle EXCEPT !.pc = "assign", !.query = q, !.db = r]]
    /\ UNCHANGED <<store_vars, edits, public_vars, index_file, intents_file, server, semantic_chatbot>>

\* admin_chatbot_query: semantic_chatbot.db = db
admin_assign_db(r) ==
    /\ requests[r].pc = "assign"
    /\ semantic_chatbot' = [semantic_chatbot EXCEPT !.db = requests[r].db]
    /\ requests' = [requests EXCEPT ![r].pc = "search"]
    /\ UNCHANGED <<store_vars, edits, public_vars, index_file, intents_file, server>>

\* process_question of worker r has read the clock and index.search has
\* returned found_idx; a is its answer when no query has been sent: the
\* answer follows at once when the handler sends no query
admin_search_after(r, found_idx, a) ==
    requests' = [requests EXCEPT
        ![r].pc = IF semantic_queries_sent(a) = 0 THEN "reply" ELSE "read",
        ![r].day = today,
        ![r].search = found_idx,
        ![r].answer = IF semantic_queries_sent(a) = 0 THEN a ELSE Pending,
        ![r].consulted = Append(@, "semantic")]

\* process_question: date.today() is read, the question is encoded and
\* index.search consulted
admin_search(r) ==
    /\ requests[r].pc = "search"
    /\ \E best_match_idx \in 1..Len(semantic_chatbot.index), best_distance \in Distances :
        /\ semantic_chatbot.index[best_match_idx] \in {encode(e) : e \in NearestExamples}
        /\ admin_search_after(
               r, [idx |-> best_match_idx, distance |-> best_distance],
               semantic_process_question_at(
                   <<Read("SemanticChatbotService", {}, TRUE)>>, semantic_chatbot,
                   requests[r].query, best_match_idx, best_distance))
    /\ UNCHANGED <<store_vars, edits, public_vars, index_file, intents_file, server, semantic_chatbot>>

\* the reads of worker r and what the next query of its handler finds in the
\* store now; the first read carries the date process_question read
admin_next_query(r) ==
    Append(requests[r].reads,
           [Read("SemanticChatbotService",
                 semantic_query_tables(semantic_chatbot.intent_map[requests[r].search.idx],
                                       Len(requests[r].reads) + 1),
                 FALSE)
            EXCEPT !.day = IF requests[r].reads = <<>> THEN requests[r].day ELSE NoDate])

\* the handler of worker r has sent the queries that found rs, through the
\* session the global held; a is the answer as far as rs tell
admin_read_after(r, rs, a) ==
    requests' = [requests EXCEPT
        ![r].reads = rs,
        ![r].used = @ \cup {semantic_chatbot.db},
        ![r].answer = IF Len(rs) < semantic_queries_sent(a) THEN Pending ELSE a,
        ![r].pc = IF Len(rs) < semantic_queries_sent(a) THEN "read" ELSE "reply"]

\* a handler evaluates self.db.query(...): the session is the one the
\* global holds at that moment, and the query finds the store as it is now
admin_read(r) ==
    /\ requests[r].pc = "read"
    /\ admin_read_after(
           r, admin_next_query(r),
           semantic_process_question_at(
               admin_next_query(r), semantic_chatbot, requests[r].query,
               requests[r].search.idx, requests[r].search.distance))
    /\ UNCHANGED <<store_vars, edits, public_vars, index_file, intents_file, server, semantic_chatbot>>

\* admin_chatbot_query returns the response; get_db closes the session
admin_reply(r) ==
    /\ requests[r].pc = "reply"
    /\ requests' = [requests EXCEPT ![r] = Idle]
    /\ UNCHANGED <<store_vars, edits, public_vars, index_file, intents_file, server, semantic_chatbot>>

\* the questions of an admin who is served alone
SemanticQuestions ==
    { <<"s","e","s","s","i","o","n"," ","1"," ","p","p","t">>, <<"S","h","o","w"," ","P","P","T"," ","f","o","r"," ","s","e","s","s","i","o","n"," ","2">>, <<"s","e","s","s","i","o","n"," ","5"," ","p","p","t">>,
      <<"S","h","o","w"," ","t","h","e"," ","s","l","i","d","e","s">>, <<"H","e","l","l","o">> }

\* the distances index.search may return, in tenths
SemanticDistances == {7, 8, 9}

\* process_question where the reads rs of its handler make a its answer: it
\* returns when it has sent all the queries it sends for the question
semantic_answer_after(rs, a) ==
    /\ reads' = IF semantic_queries_sent(a) = 0 THEN <<>> ELSE rs
    /\ response' = IF Len(rs) < semantic_queries_sent(a) THEN Pending ELSE a
    /\ cascade' = 0

\* process_question after the queries of its handler found rs
semantic_question_after(rs, self, q, found_idx) ==
    semantic_answer_after(
        rs, semantic_process_question_at(rs, self, q, found_idx.idx, found_idx.distance))

\* admin_chatbot_query with one of the questions qs, the nearest example
\* being one of the intents given, up to the first query of the handler
admin_chatbot_query_over(qs, intent_names) ==
    /\ server.pc = "running"
    /\ data_query = NoRequest
    /\ \A r \in 1..MaxRequests : requests[r].pc = "idle"
    /\ \E q \in qs, best_match_idx \in 1..Len(semantic_chatbot.index),
          best_distance \in SemanticDistances :
        /\ semantic_chatbot.intent_map[best_match_idx] \in intent_names
        /\ data_query' = q
        /\ search' = [idx |-> best_match_idx, distance |-> best_distance]
        /\ semantic_question_after(
               <<Read("SemanticChatbotService",
                      semantic_query_tables(semantic_chatbot.intent_map[best_match_idx], 1),
                      TRUE)>>,
               semantic_chatbot, q, [idx |-> best_match_idx, distance |-> best_distance])

\* the intents of SemanticChatbotService
IntentNames == {intents[i].intent : i \in 1..Len(intents)}

\* admin_chatbot_query with a process_question that adds the embedding of
\* each question it is asked to the index
admin_chatbot_query_learning ==
    /\ admin_chatbot_query_over(SemanticQuestions, IntentNames)
    /\ semantic_chatbot' = [semantic_chatbot EXCEPT
           !.db = 1, !.index = Append(@, encode(data_query')),
           !.intent_map = Append(@, semantic_chatbot.intent_map[search'.idx])]
    /\ UNCHANGED <<store_vars, edits, index_file, intents_file, server, requests, submissions>>

\* admin_chatbot_query (POST /api/admin/chatbot) served with no other
\* request in the process, up to the first query of the handler
admin_chatbot_query_alone ==
    /\ admin_chatbot_query_over(SemanticQuestions, IntentNames)
    /\ semantic_chatbot' = [semantic_chatbot EXCEPT !.db = 1]
    /\ UNCHANGED <<store_vars, edits, index_file, intents_file, server, requests, submissions>>

\* the handler of the request in flight, from the result of one query to
\* the result of the next
admin_db_query ==
    /\ waits_for_query("SemanticChatbotService")
    /\ semantic_question_after(
           Append(reads, Read("SemanticChatbotService",
                              semantic_query_tables(semantic_chatbot.intent_map[search.idx],
                                                    Len(reads) + 1),
                              FALSE)),
           semantic_chatbot, data_query, search)
    /\ UNCHANGED <<store_vars, edits, admin_vars, data_query, search, submissions>>
(***************************************************************************)
(* The timetable routes of src/main.py and the questions about departments *)
(* and weekdays                                                            *)
(***************************************************************************)

MaxTimetable == 5
MaxTimetableId == 5

\* the subject TimetableCreate gives a row when the body names none
DefaultSubject == [subject_code |-> <<"2","4","U","C","S","2","7","1">>, subject_name |-> <<"P","R","O","G"," ","C">>]

\* the TimetableCreate bodies of the model
TimetableBodies ==
    [faculty_id : {2}, department_id : {6}, day : { <<"M","o","n","d","a","y">> },
     period : {2, 5}, subject_code : {DefaultSubject.subject_code},
     subject_name : {DefaultSubject.subject_name}, class_type : { <<"t","h","e","o","r","y">> }]

\* super_admin_create_timetable (POST /api/super-admin/timetable) with one of
\* the given bodies
super_admin_create_timetable_over(bodies) ==
    /\ listening
    /\ Len(timetable) < MaxTimetable
    /\ next_id(timetable) <= MaxTimetableId
    /\ \E data \in bodies :
        timetable' = Append(timetable,
            [id |-> next_id(timetable), faculty_id |-> data.faculty_id,
             department_id |-> data.department_id, day |-> data.day,
             period |-> data.period, subject_code |-> data.subject_code,
             subject_name |-> data.subject_name, class_type |-> data.class_type])
    /\ UNCHANGED <<faculties, daily_entries, faqs, today, catalog_vars, public_vars,
                   admin_vars, edits>>

super_admin_create_timetable == super_admin_create_timetable_over(TimetableBodies)

\* the ids the timetable routes of the model are called with
TimetableIds == {1, 3, 5}

\* the TimetableUpdate bodies of the model: a field that is None is left out
TimetableUpdates ==
    { [period |-> 5],
      [faculty_id |-> 3, department_id |-> 6, day |-> <<"T","u","e","s","d","a","y">>, period |-> 1,
       subject_code |-> <<"2","4","U","C","S","2","7","2">>, subject_name |-> <<"P","R","O","G"," ","C"," ","L","A","B">>,
       class_type |-> <<"t","h","e","o","r","y">>] }

\* super_admin_update_timetable (PUT /api/super-admin/timetable/{entry_id})
\* with an id and a body of the given sets: the query for the entry, 404 for
\* an unknown id, and the assignments of the fields that are not None; then
\* the commit
super_admin_update_timetable_over(w, ids, bodies) ==
    \/ /\ \E entry_id \in ids, data \in bodies :
            /\ row_by_id(timetable, entry_id) # NoRow
            /\ select(w, "super_admin_update_timetable", entry_id,
                      changes(row_by_id(timetable, entry_id), data))
       /\ UNCHANGED <<store_vars, public_vars, admin_vars>>
    \/ /\ serving(w, "super_admin_update_timetable")
       /\ timetable' = flush_update(timetable, edits[w].id, edits[w].data)
       /\ return(w)
       /\ UNCHANGED <<faculties, daily_entries, faqs, today, catalog_vars, public_vars,
                      admin_vars>>

super_admin_update_timetable(w) ==
    super_admin_update_timetable_over(w, {1}, TimetableUpdates)

\* super_admin_delete_timetable (DELETE /api/super-admin/timetable/{entry_id}):
\* the query for the entry, 404 for an unknown id; then the DELETE and the
\* commit
super_admin_delete_timetable(w) ==
    \/ /\ \E entry_id \in TimetableIds :
            /\ row_by_id(timetable, entry_id) # NoRow
            /\ select(w, "super_admin_delete_timetable", entry_id, <<>>)
       /\ UNCHANGED <<store_vars, public_vars, admin_vars>>
    \/ /\ serving(w, "super_admin_delete_timetable")
       /\ timetable' = flush_delete(timetable, edits[w].id)
       /\ return(w)
       /\ UNCHANGED <<faculties, daily_entries, faqs, today, catalog_vars, public_vars,
                      admin_vars>>

\* the questions about departments and weekdays: a code of the catalog of
\* _init_all_data and the weekday examples of the help text
TimetableQuestions ==
    { <<"C","S","E","-","A">>, <<"c","s","e","-","a"," ","s","c","h","e","d","u","l","e">>, <<"M","o","n","d","a","y"," ","s","c","h","e","d","u","l","e">>, <<"T","u","e","s","d","a","y"," ","c","l","a","s","s","e","s">>,
      <<"T","u","e","s","d","a","y"," ","t","i","m","e","t","a","b","l","e">> }

\* chatbot_query with a question about a department or a weekday
chatbot_query_timetable == chatbot_query_over(TimetableQuestions)

(***************************************************************************)
(* The questions about periods                                             *)
(***************************************************************************)

\* the English ordinal suffix of a number 1..9
OrdinalSuffix(n) ==
    IF n = 1 THEN <<"s","t">> ELSE IF n = 2 THEN <<"n","d">> ELSE IF n = 3 THEN <<"r","d">> ELSE <<"t","h">>

\* 'period n' and 'n<suffix> period', the two examples of the help text
PeriodForms(n) ==
    { <<"p","e","r","i","o","d"," ">> \o <<DigitChar(n)>>,
      <<DigitChar(n)>> \o OrdinalSuffix(n) \o <<" ","p","e","r","i","o","d">> }

PeriodQuestions == UNION {PeriodForms(n) : n \in 1..9}

\* chatbot_query with a question about a period
chatbot_query_period == chatbot_query_over(PeriodQuestions)

(***************************************************************************)
(* The sentences FAQChatbot returns for empty results, character by        *)
(* character; a leading emoji and the space after it are left out and a    *)
(* bullet character is written '*'                                         *)
(***************************************************************************)

\* the lines of the syllabus overview of _get_topics_today
RECURSIVE session_lines(_)
session_lines(rows) ==
    IF rows = <<>> THEN <<>>
    ELSE <<"*"," ","*","*","S","e","s","s","i","o","n"," ">> \o str_int(rows[1].session_number) \o <<":","*","*"," ">>
         \o rows[1].session_title \o <<"\n">> \o session_lines(Tail(rows))

\* the text of _get_today_summary
summary_text(a) ==
    <<"*","*","T","o","d","a","y","'","s"," ","S","u","m","m","a","r","y"," ","(">> \o a.day \o <<")",":","*","*","\n","\n">>
    \o <<"*","*","C","l","a","s","s","e","s",":","*","*","\n">>
    \o <<"*"," ","T","o","t","a","l"," ","C","l","a","s","s","e","s",":"," ","*","*">> \o str_int(a.total_entries) \o <<"*","*","\n">>
    \o <<"*"," ","T","h","e","o","r","y"," ","C","l","a","s","s","e","s",":"," ","*","*">> \o str_int(a.theory_count) \o <<"*","*","\n">>
    \o <<"*"," ","L","a","b"," ","C","l","a","s","s","e","s",":"," ","*","*">> \o str_int(a.lab_count) \o <<"*","*","\n","\n">>
    \o <<"*","*","F","a","c","u","l","t","y",":","*","*","\n">>
    \o <<"*"," ","T","e","a","c","h","i","n","g"," ","T","o","d","a","y",":"," ","*","*">> \o str_int(a.faculty_teaching) \o <<"*","*"," ","o","f"," ">>
    \o str_int(a.total_faculty) \o <<"\n">>
    \o <<"*"," ","F","r","e","e"," ","T","o","d","a","y",":"," ","*","*">>
    \o str_int(a.free_today)
    \o <<"*","*","\n","\n">>
    \o <<"*","*","D","e","p","a","r","t","m","e","n","t","s",":","*","*","\n">>
    \o <<"*"," ","W","i","t","h"," ","C","l","a","s","s","e","s",":"," ","*","*">> \o str_int(a.depts_with_classes) \o <<"*","*","\n","\n">>
    \o <<"_","A","s","k"," ","'","w","h","o"," ","h","a","s"," ","c","l","a","s","s"," ","t","o","d","a","y","'"," ","o","r"," ","'","w","h","o"," ","i","s"," ","a","b","s","e","n","t"," ","t","o","d","a","y","'"," ","f","o","r"," ","d","e","t","a","i","l","s","_">>

\* the text of an answer given for an empty result, and of today's summary
text_of(db, a) ==
    CASE a.kind = "no_classes_in_period" ->
            <<"N","o"," ","C"," ","P","r","o","g","r","a","m","m","i","n","g"," ","c","l","a","s","s","e","s"," ","i","n"," ","*","*","P","e","r","i","o","d"," ">> \o str_int(a.period)
            \o <<"*","*"," ","o","n"," ","*","*">> \o a.day \o <<"*","*",".">>
      [] a.kind = "no_classes_for_day" ->
            <<"N","o"," ","C"," ","P","r","o","g","r","a","m","m","i","n","g"," ","c","l","a","s","s","e","s"," ","s","c","h","e","d","u","l","e","d"," ","f","o","r"," ","*","*">> \o a.day \o <<"*","*",".">>
      [] a.kind = "faculty_no_classes" ->
            <<"*","*">> \o faculty_by_id(db, a.faculty).name
            \o <<"*","*"," ","h","a","s"," ","n","o"," ","c","l","a","s","s","e","s"," ","s","c","h","e","d","u","l","e","d"," ","f","o","r"," ","*","*">> \o a.day \o <<"*","*",".">>
      [] a.kind = "no_classes_for_department" ->
            <<"N","o"," ","C"," ","P","r","o","g","r","a","m","m","i","n","g"," ","c","l","a","s","s","e","s"," ","f","o","r"," ","*","*">> \o a.dept \o <<"*","*"," ","o","n"," ","*","*">> \o a.day \o <<"*","*",".">>
      [] a.kind = "no_classes_of_type" ->
            <<"N","o"," ","*","*">> \o title(replace_char(a.class_type, "_", <<" ">>))
            \o <<"*","*"," ","c","l","a","s","s","e","s"," ","s","c","h","e","d","u","l","e","d"," ","f","o","r"," ","*","*">>
            \o a.day \o <<"*","*",".">>
      [] a.kind = "no_absentees_all_present" ->
            <<"*","*","N","o"," ","a","b","s","e","n","t","e","e","s"," ","t","o","d","a","y"," ","(">> \o a.day
            \o <<")","!","*","*","\n","\n","A","l","l"," ","f","a","c","u","l","t","y"," ","m","e","m","b","e","r","s"," ","a","r","e"," ","p","r","e","s","e","n","t",".">>
      [] a.kind = "today_summary" -> summary_text(a)
      [] a.kind = "topics_overview_no_entries" ->
            <<"*","*","T","o","p","i","c","s"," ","O","v","e","r","v","i","e","w"," ","(","N","o"," ","e","n","t","r","i","e","s"," ","f","o","r"," ">> \o a.day \o <<" ","y","e","t",")",":","*","*","\n","\n">>
            \o <<"F","a","c","u","l","t","y"," ","m","e","m","b","e","r","s"," ","h","a","v","e","n","'","t"," ","l","o","g","g","e","d"," ","t","h","e","i","r"," ","s","e","s","s","i","o","n","s"," ","y","e","t","."," ","H","e","r","e"," ","a","r","e"," ","u","p","c","o","m","i","n","g"," ","t","o","p","i","c","s",":","\n","\n">>
            \o session_lines(a.rows)
            \o <<"\n","_","A","s","k"," ","'","s","e","s","s","i","o","n"," ","[","n","u","m","b","e","r","]","'"," ","f","o","r"," ","d","e","t","a","i","l","e","d"," ","t","o","p","i","c"," ","i","n","f","o",".","_">>
      [] a.kind = "no_syllabus_information" -> <<"N","o"," ","s","y","l","l","a","b","u","s"," ","i","n","f","o","r","m","a","t","i","o","n"," ","a","v","a","i","l","a","b","l","e",".">>
      [] a.kind = "no_faculties_found" -> <<"N","o"," ","f","a","c","u","l","t","i","e","s"," ","f","o","u","n","d",".">>
      [] a.kind = "no_lab_program" ->
            <<"N","o"," ","l","a","b"," ","p","r","o","g","r","a","m"," ","f","o","u","n","d"," ","f","o","r"," ","w","e","e","k"," ">> \o str_int(a.week) \o <<".">>
      [] a.kind = "no_session" ->
            <<"N","o"," ","s","e","s","s","i","o","n"," ">> \o str_int(a.session) \o <<" ","f","o","u","n","d",".">>
      [] OTHER -> <<>>

\* one question for each handler
HandlerQuestions ==
    { <<"p","e","r","i","o","d"," ","5">>, <<"w","e","d","n","e","s","d","a","y">>, <<"s","a","t","h","i","s","h">>, <<"c","s","e","-","b">>, <<"l","a","b"," ","t","o","d","a","y">>,
      <<"t","h","e","o","r","y"," ","t","o","d","a","y">>, <<"s","h","o","w"," ","s","c","h","e","d","u","l","e">>, <<"t","o","d","a","y","'","s"," ","s","u","m","m","a","r","y">>, <<"w","h","o"," ","i","s"," ","a","b","s","e","n","t"," ","t","o","d","a","y">>,
      <<"t","o","p","i","c","s"," ","t","o","d","a","y">>, <<"w","e","e","k"," ","9"," ","l","a","b">>, <<"s","e","s","s","i","o","n"," ","9">>, <<"l","i","s","t"," ","a","l","l"," ","f","a","c","u","l","t","y">> }

\* chatbot_query with a question for one of the handlers
chatbot_query_handlers == chatbot_query_over(HandlerQuestions)


(***************************************************************************)
(* Questions of every shape: empty, blank, matching several rules at once, *)
(* matching none, and holding a number no 64-bit integer holds.            *)
(***************************************************************************)
AnyQuestions ==
    { <<>>, <<" "," "," ">>, <<"h","i">>, <<"x","y","z">>, <<"h","e","l","l","o"," ","s","a","t","h","i","s","h"," ","p","e","r","i","o","d"," ","3"," ","l","a","b"," ","c","s","e","-","a">>,
      <<"p","e","r","i","o","d"," ","3">>, <<"p","e","r","i","o","d"," ","9","2","2","3","3","7","2","0","3","6","8","5","4","7","7","5","8","0","8">>,
      <<"w","e","e","k"," ","9","9","9","9","9","9","9","9","9","9","9","9","9","9","9","9","9","9","9","9">>, <<"s","e","s","s","i","o","n"," ","9","2","2","3","3","7","2","0","3","6","8","5","4","7","7","5","8","0","8">>,
      <<"w","e","e","k"," ","1">>, <<"l","a","b"," ","p","r","o","g","r","a","m"," ","2">>, <<"w","3">>, <<"s","h","o","w"," ","3","r","d"," ","p","e","r","i","o","d">>,
      <<"i","t","-","a">>, <<"I","T"," ","A"," ","c","l","a","s","s","e","s">>, <<"i","t","a">>, <<"d","i","g","i","t","a","l">>, <<"w","h","a","t"," ","i","s"," ","i","t"," ","a","b","o","u","t">> }

\* chatbot_query with a question of any shape
chatbot_query_any == chatbot_query_over(AnyQuestions)

(***************************************************************************)
(* The schedules of a day and of a faculty's week, over a timetable whose  *)
(* rows are stored in the order they were created                          *)
(***************************************************************************)

\* TimetableCreate bodies for the faculty with rows on two days already: a
\* Monday period below the Tuesday one stored before it, a Monday period
\* above those of the other faculties, and a Sunday period
WeeklyBodies ==
    [faculty_id : {1}, department_id : {6}, day : { <<"M","o","n","d","a","y">>, <<"S","u","n","d","a","y">> },
     period : {2, 5}, subject_code : {DefaultSubject.subject_code},
     subject_name : {DefaultSubject.subject_name}, class_type : { <<"t","h","e","o","r","y">> }]

super_admin_create_timetable_weekly == super_admin_create_timetable_over(WeeklyBodies)

\* super_admin_update_timetable moving the Monday class of the faculty to a
\* later period
super_admin_update_timetable_weekly(w) ==
    super_admin_update_timetable_over(w, {2}, {[period |-> 5]})

\* questions answered with the schedule of a day
ScheduleQuestions ==
    { <<"m","o","n","d","a","y">>, <<"t","u","e","s","d","a","y">>, <<"c","s","e","-","a">>, <<"s","a","t","h","i","s","h">>, <<"j","a","n","a","n","i">>, <<"t","h","e","o","r","y"," ","t","o","d","a","y">>,
      <<"s","h","o","w"," ","s","c","h","e","d","u","l","e">>, <<"p","e","r","i","o","d"," ","3">> }

chatbot_query_schedule == chatbot_query_over(ScheduleQuestions)

\* questions of an admin about the week of one faculty
WeeklyQuestions == { <<"W","h","e","n"," ","d","o","e","s"," ","S","a","t","h","i","s","h"," ","h","a","v","e"," ","c","l","a","s","s","?">>, <<"S","h","o","w"," ","J","a","n","a","n","i","'","s"," ","t","i","m","e","t","a","b","l","e">> }

\* admin_chatbot_query (POST /api/admin/chatbot) served alone, the nearest
\* example being one of get_faculty_schedule
admin_chatbot_query_weekly ==
    /\ admin_chatbot_query_over(WeeklyQuestions, {"get_faculty_schedule"})
    /\ semantic_chatbot' = [semantic_chatbot EXCEPT !.db = 1]
    /\ UNCHANGED <<store_vars, edits, index_file, intents_file, server, requests, submissions>>

\* questions of an admin about the faculties absent today
AbsentQuestions == { <<"W","h","o"," ","i","s"," ","a","b","s","e","n","t"," ","t","o","d","a","y","?">> }

\* admin_chatbot_query served alone, the nearest example being one of
\* get_absent_faculty
admin_chatbot_query_absent ==
    /\ admin_chatbot_query_over(AbsentQuestions, {"get_absent_faculty"})
    /\ semantic_chatbot' = [semantic_chatbot EXCEPT !.db = 1]
    /\ UNCHANGED <<store_vars, edits, index_file, intents_file, server, requests, submissions>>


(***************************************************************************)
(* submit_daily_entry step by step.  The route is a plain def, which the   *)
(* framework runs on a thread of its pool with a database session of its   *)
(* own, so two submissions are served at the same time: each is called     *)
(* with the Faculty its dependency loaded, queries for an existing entry   *)
(* and later commits its update or its insert.                             *)
(***************************************************************************)

\* the columns the update path of submit_daily_entry assigns
EntryColumns ==
    {"class_type", "syllabus_id", "lab_program_id", "lab_work_done",
     "mini_project_progress", "is_own_content", "own_content_title",
     "own_content_summary", "summary", "is_absent", "is_swapped", "swapped_with"}

\* the faculty ids of the tokens the requests of the model carry
TokenIds == {1, 2}

\* get_current_faculty, the dependency of submit_daily_entry: the query for
\* the faculty of the token, 401 when there is none; the route is then called
\* with the Faculty object and the body of the request
get_current_faculty(r) ==
    /\ listening
    /\ submissions[r].pc = "idle"
    /\ \E faculty_id \in TokenIds, entry \in DailyEntryBodies :
        /\ row_by_id(faculties, faculty_id) # NoRow
        /\ submissions' = [submissions EXCEPT ![r] =
               [pc |-> "authenticated", faculty_id |-> faculty_id, date |-> 0,
                entry |-> entry, existing |-> NoRow]]
    /\ UNCHANGED <<store_vars, edits, data_query, reads, response, cascade, search, admin_vars>>

\* submit_daily_entry up to `existing = db.query(DailyEntry).filter(...).first()`,
\* with the id of the Faculty object it was called with
submit_daily_entry_check(r) ==
    LET s == submissions[r]
        existing == SelectSeq(daily_entries, LAMBDA e :
                        /\ e.faculty_id = s.faculty_id
                        /\ e.department_id = s.entry.department_id
                        /\ e.date = today
                        /\ e.period = s.entry.period)
    IN  /\ s.pc = "authenticated"
        /\ submissions' = [submissions EXCEPT ![r] =
               [s EXCEPT !.pc = "checked", !.date = today, !.existing = first(existing)]]
        /\ UNCHANGED <<store_vars, edits, data_query, reads, response, cascade, search,
                       admin_vars>>

\* submit_daily_entry from `if existing:` to its return: the columns of the
\* row found are assigned and the commit writes those that differ from the
\* values the row was loaded with, or a new row is added and committed
submit_daily_entry_write(r) ==
    LET s == submissions[r]
    IN  /\ s.pc = "checked"
        /\ IF s.existing # NoRow
           THEN daily_entries' =
                    flush_update(daily_entries, s.existing.id,
                                 changes(s.existing,
                                         [c \in EntryColumns |-> s.entry[c]]))
           ELSE /\ Len(daily_entries) < MaxDailyEntries
                /\ daily_entries' = Append(daily_entries,
                       [c \in {"id", "faculty_id", "date"} \cup DOMAIN s.entry |->
                           IF c = "id" THEN next_id(daily_entries)
                           ELSE IF c = "faculty_id" THEN s.faculty_id
                           ELSE IF c = "date" THEN s.date
                           ELSE s.entry[c]])
        /\ submissions' = [submissions EXCEPT ![r] = NoSubmission]
        /\ UNCHANGED <<faculties, timetable, faqs, today, catalog_vars, data_query, reads, response, cascade,
                       search, admin_vars, edits>>
(***************************************************************************)
(* The catalog routes of src/main.py: the super admin creates, updates and *)
(* deletes departments, syllabus sessions and lab programs.  A request     *)
(* answered with 400 or 404, or one whose commit fails, leaves the store   *)
(* as it was.                                                              *)
(***************************************************************************)

MaxDepartmentId == 15
MaxSyllabus == 46
MaxSyllabusId == 46
MaxLabPrograms == 11
MaxLabProgramId == 11

\* the DepartmentCreate bodies of the model: the code of the help text, which
\* no row of _init_all_data carries, and a code that is taken
DepartmentBodies ==
    { [name |-> <<" ","A","I","D","S"," ","-"," ","A">>, code |-> <<"A","I","D","S","-","A">>],
      [name |-> <<" ","R","o","b","o","t","i","c","s">>, code |-> <<"R","A">>] }

\* the ids the department routes of the model are called with
DepartmentIds == {1, 15}

\* the DepartmentUpdate bodies of the model: a field that is missing is None
DepartmentUpdates == { [code |-> <<"A","I","D","S","-","A">>], [name |-> <<" ","R","A">>] }

\* super_admin_create_department (POST /api/super-admin/departments): the
\* query for a department with the code, 400 when there is one; then the
\* INSERT and the commit, which fails when the code has been taken since
super_admin_create_department(w) ==
    \/ /\ next_id(departments) <= MaxDepartmentId
       /\ \E data \in DepartmentBodies :
            /\ ~\E i \in 1..Len(departments) : departments[i].code = data.code
            /\ select(w, "super_admin_create_department", 0, data)
       /\ UNCHANGED <<store_vars, public_vars, admin_vars>>
    \/ /\ serving(w, "super_admin_create_department")
       /\ departments' = commit_unique(departments,
              Append(departments,
                     [id |-> next_id(departments), name |-> edits[w].data.name,
                      code |-> edits[w].data.code]),
              "code")
       /\ return(w)
       /\ UNCHANGED <<faculties, timetable, daily_entries, faqs, today, syllabus,
                      lab_programs, public_vars, admin_vars>>

\* super_admin_update_department (PUT /api/super-admin/departments/{dept_id}):
\* the query for the department, 404 for an unknown id, and the assignments
\* of the fields that are not None; then the commit.  The route does not look
\* for the code among the other departments, the UNIQUE constraint of the
\* column makes the commit fail; with an id and a body of the given sets
super_admin_update_department_over(w, ids, bodies) ==
    \/ /\ \E dept_id \in ids, data \in bodies :
            /\ row_by_id(departments, dept_id) # NoRow
            /\ select(w, "super_admin_update_department", dept_id,
                      changes(row_by_id(departments, dept_id), data))
       /\ UNCHANGED <<store_vars, public_vars, admin_vars>>
    \/ /\ serving(w, "super_admin_update_department")
       /\ departments' = commit_unique(departments,
              flush_update(departments, edits[w].id, edits[w].data),
              "code")
       /\ return(w)
       /\ UNCHANGED <<faculties, timetable, daily_entries, faqs, today, syllabus,
                      lab_programs, public_vars, admin_vars>>

super_admin_update_department(w) ==
    super_admin_update_department_over(w, DepartmentIds, DepartmentUpdates)

\* super_admin_update_department giving the department of a Monday class the
\* name of the department of another
super_admin_rename_department(w) ==
    super_admin_update_department_over(w, {14}, {[name |-> <<" ","C","S","E"," ","-"," ","A">>]})

\* super_admin_delete_department (DELETE /api/super-admin/departments/{dept_id})
\* with an id of the given set: the query for the department, 404 for an
\* unknown id; then the query for a timetable entry of the department, 400
\* when there is one; then the DELETE and the commit.  The request keeps the
\* number of queries it has sent
super_admin_delete_department_over(w, ids) ==
    \/ /\ \E dept_id \in ids :
            /\ row_by_id(departments, dept_id) # NoRow
            /\ select(w, "super_admin_delete_department", dept_id, [queries |-> 1])
       /\ UNCHANGED <<store_vars, public_vars, admin_vars>>
    \/ /\ serving(w, "super_admin_delete_department")
       /\ edits[w].data.queries = 1
       /\ LET in_use == first(SelectSeq(timetable, LAMBDA t :
                                          t.department_id = edits[w].id))
          IN  edits' = [edits EXCEPT ![w] =
                           IF in_use # NoRow THEN NoEdit
                           ELSE [@ EXCEPT !.data = [queries |-> 2]]]
       /\ UNCHANGED <<store_vars, public_vars, admin_vars>>
    \/ /\ serving(w, "super_admin_delete_department")
       /\ edits[w].data.queries = 2
       /\ departments' = flush_delete(departments, edits[w].id)
       /\ return(w)
       /\ UNCHANGED <<faculties, timetable, daily_entries, faqs, today, syllabus,
                      lab_programs, public_vars, admin_vars>>

super_admin_delete_department(w) == super_admin_delete_department_over(w, DepartmentIds)

\* super_admin_delete_department for the department of a timetable entry
super_admin_delete_department_used(w) == super_admin_delete_department_over(w, {14})

\* the SyllabusCreate bodies of the model: a session after the 45 of
\* _init_all_data
SyllabusBodies ==
    { [session_number |-> 46, session_title |-> <<"R","e","v","i","s","i","o","n">>, unit |-> 5,
       topics |-> Null, ppt_url |-> Null] }

\* the ids the syllabus routes of the model are called with
SyllabusIds == {46}

\* the SyllabusUpdate bodies of the model: a field that is missing is None
SyllabusUpdates ==
    { [session_number |-> 46, session_title |-> <<"R","e","c","a","p">>, unit |-> 4,
       topics |-> <<"P","o","i","n","t","e","r","s">>, ppt_url |-> <<"h","t","t","p","s",":","/","/","p","p","t","/","4","6">>] }

\* super_admin_create_syllabus (POST /api/super-admin/syllabus)
super_admin_create_syllabus ==
    /\ listening
    /\ Len(syllabus) < MaxSyllabus
    /\ next_id(syllabus) <= MaxSyllabusId
    /\ \E data \in SyllabusBodies :
        syllabus' = Append(syllabus,
            [id |-> next_id(syllabus), session_number |-> data.session_number,
             session_title |-> data.session_title, unit |-> data.unit,
             topics |-> data.topics, ppt_url |-> data.ppt_url])
    /\ UNCHANGED <<faculties, timetable, daily_entries, faqs, today, departments,
                   lab_programs, public_vars, admin_vars, edits>>

\* super_admin_update_syllabus (PUT /api/super-admin/syllabus/{session_id}):
\* the query for the session, 404 for an unknown id, and the assignments of
\* the fields that are not None; then the commit
super_admin_update_syllabus(w) ==
    \/ /\ \E session_id \in SyllabusIds, data \in SyllabusUpdates :
            /\ row_by_id(syllabus, session_id) # NoRow
            /\ select(w, "super_admin_update_syllabus", session_id,
                      changes(row_by_id(syllabus, session_id), data))
       /\ UNCHANGED <<store_vars, public_vars, admin_vars>>
    \/ /\ serving(w, "super_admin_update_syllabus")
       /\ syllabus' = flush_update(syllabus, edits[w].id, edits[w].data)
       /\ return(w)
       /\ UNCHANGED <<faculties, timetable, daily_entries, faqs, today, departments,
                      lab_programs, public_vars, admin_vars>>

\* super_admin_delete_syllabus (DELETE /api/super-admin/syllabus/{session_id}):
\* the query for the session, 404 for an unknown id; then the DELETE and the
\* commit
super_admin_delete_syllabus(w) ==
    \/ /\ \E session_id \in SyllabusIds :
            /\ row_by_id(syllabus, session_id) # NoRow
            /\ select(w, "super_admin_delete_syllabus", session_id, <<>>)
       /\ UNCHANGED <<store_vars, public_vars, admin_vars>>
    \/ /\ serving(w, "super_admin_delete_syllabus")
       /\ syllabus' = flush_delete(syllabus, edits[w].id)
       /\ return(w)
       /\ UNCHANGED <<faculties, timetable, daily_entries, faqs, today, departments,
                      lab_programs, public_vars, admin_vars>>

\* the LabProgramCreate bodies of the model: a program after the 10 of
\* _init_all_data
LabProgramBodies ==
    { [program_number |-> 11, program_title |-> <<"I","n","-","L","a","b"," ","W","1","1",":"," ","R","e","v","i","s","i","o","n">>,
       description |-> Null, moodle_url |-> <<"h","t","t","p","s",":","/","/","m","o","o","d","l","e","/","1","1">>] }

\* the ids the lab program routes of the model are called with
LabProgramIds == {1}

\* the LabProgramUpdate bodies of the model: a field that is missing is None
LabProgramUpdates ==
    { [program_number |-> 11],
      [program_title |-> <<"I","n","-","L","a","b"," ","W","1",":"," ","B","a","s","i","c","s">>, description |-> <<"H","e","l","l","o"," ","w","o","r","l","d">>] }

\* super_admin_create_lab_program (POST /api/super-admin/lab-programs)
super_admin_create_lab_program ==
    /\ listening
    /\ Len(lab_programs) < MaxLabPrograms
    /\ next_id(lab_programs) <= MaxLabProgramId
    /\ \E data \in LabProgramBodies :
        lab_programs' = Append(lab_programs,
            [id |-> next_id(lab_programs), program_number |-> data.program_number,
             program_title |-> data.program_title, description |-> data.description,
             moodle_url |-> data.moodle_url])
    /\ UNCHANGED <<faculties, timetable, daily_entries, faqs, today, departments,
                   syllabus, public_vars, admin_vars, edits>>

\* super_admin_update_lab_program (PUT /api/super-admin/lab-programs/{program_id}):
\* the query for the program, 404 for an unknown id, and the assignments of
\* the fields that are not None; then the commit
super_admin_update_lab_program(w) ==
    \/ /\ \E program_id \in LabProgramIds, data \in LabProgramUpdates :
            /\ row_by_id(lab_programs, program_id) # NoRow
            /\ select(w, "super_admin_update_lab_program", program_id,
                      changes(row_by_id(lab_programs, program_id), data))
       /\ UNCHANGED <<store_vars, public_vars, admin_vars>>
    \/ /\ serving(w, "super_admin_update_lab_program")
       /\ lab_programs' = flush_update(lab_programs, edits[w].id, edits[w].data)
       /\ return(w)
       /\ UNCHANGED <<faculties, timetable, daily_entries, faqs, today, departments,
                      syllabus, public_vars, admin_vars>>

\* super_admin_delete_lab_program (DELETE /api/super-admin/lab-programs/{program_id}):
\* the query for the program, 404 for an unknown id; then the DELETE and the
\* commit
super_admin_delete_lab_program(w) ==
    \/ /\ \E program_id \in LabProgramIds :
            /\ row_by_id(lab_programs, program_id) # NoRow
            /\ select(w, "super_admin_delete_lab_program", program_id, <<>>)
       /\ UNCHANGED <<store_vars, public_vars, admin_vars>>
    \/ /\ serving(w, "super_admin_delete_lab_program")
       /\ lab_programs' = flush_delete(lab_programs, edits[w].id)
       /\ return(w)
       /\ UNCHANGED <<faculties, timetable, daily_entries, faqs, today, departments,
                      syllabus, public_vars, admin_vars>>

\* the questions about the catalog: codes of the departments of
\* _init_all_data, the code of the help text, sessions, lab programs and topics
CatalogQuestions ==
    { <<"A","I","&","D","S","-","A">>, <<"C","S","E","-","A">>, <<"R","A">>, <<"A","I","D","S","-","A">>, <<"s","e","s","s","i","o","n"," ","1"," ","p","p","t">>, <<"s","e","s","s","i","o","n"," ","4","6">>,
      <<"w","e","e","k"," ","1","1">>, <<"t","o","p","i","c","s"," ","t","o","d","a","y">> }

\* chatbot_query with a question about the catalog
chatbot_query_catalog == chatbot_query_over(CatalogQuestions)

(***************************************************************************)
(* Specifications                                                          *)
(***************************************************************************)

Init ==
    /\ faculties = InitialFaculties
    /\ timetable = InitialTimetable
    /\ daily_entries = <<>>
    /\ faqs = <<>>
    /\ departments = InitialDepartments
    /\ syllabus = InitialSyllabus
    /\ lab_programs = InitialLabPrograms
    /\ today = 0
    /\ data_query = NoRequest
    /\ reads = <<>>
    /\ response = None
    /\ cascade = 0
    /\ search = NoSearch
    /\ index_file = NoFile
    /\ intents_file = NoFile
    /\ server = Stopped
    /\ semantic_chatbot = NoObject
    /\ requests = [r \in 1..MaxRequests |-> Idle]
    /\ submissions = [r \in 1..MaxSubmissions |-> NoSubmission]
    /\ edits = [w \in 1..MaxEdits |-> NoEdit]

\* the public chatbot over the timetable
Next ==
    \/ startup_build_index
    \/ build_write_index
    \/ build_write_intents
    \/ chatbot_query
    \/ db_query
    \/ chatbot_reply
    \/ super_admin_update_faculty(1)
    \/ next_day

Spec == Init /\ [][Next]_vars

\* the public chatbot over the daily entries
NextDaily ==
    \/ startup_build_index
    \/ build_write_index
    \/ build_write_intents
    \/ chatbot_query_daily
    \/ db_query
    \/ chatbot_reply
    \/ get_current_faculty(1)
    \/ submit_daily_entry_check(1)
    \/ submit_daily_entry_write(1)
    \/ next_day

SpecDaily == Init /\ [][NextDaily]_vars

\* the public chatbot over the FAQ catalog
NextFaq ==
    \/ startup_build_index
    \/ build_write_index
    \/ build_write_intents
    \/ chatbot_query_faq
    \/ db_query
    \/ chatbot_reply
    \/ super_admin_create_faq
    \/ super_admin_update_faq(1)
    \/ super_admin_delete_faq(1)

SpecFaq == Init /\ [][NextFaq]_vars

\* ChatbotService over the timetable
NextService ==
    \/ startup_build_index
    \/ build_write_index
    \/ build_write_intents
    \/ service_query
    \/ service_db_query
    \/ chatbot_reply
    \/ super_admin_create_faculty(1)
    \/ super_admin_update_faculty(1)
    \/ super_admin_delete_faculty(1)
    \/ super_admin_rename_department(1)
    \/ next_day

SpecService == Init /\ [][NextService]_vars

\* the web process and the route /api/admin/chatbot, while the super admin
\* deactivates a faculty
NextAdmin ==
    \/ startup_load_index
    \/ startup_load_fails
    \/ startup_build_index
    \/ build_write_index
    \/ build_write_intents
    \/ interrupt
    \/ remove_file
    \/ \E r \in 1..MaxRequests :
          \/ admin_chatbot_query(r)
          \/ admin_assign_db(r)
          \/ admin_search(r)
          \/ admin_read(r)
          \/ admin_reply(r)
    \/ super_admin_deactivate_faculty(1)

SpecAdmin == Init /\ [][NextAdmin]_vars

\* the public chatbot over a timetable the super admin edits
NextTimetable ==
    \/ startup_build_index
    \/ build_write_index
    \/ build_write_intents
    \/ chatbot_query_timetable
    \/ db_query
    \/ chatbot_reply
    \/ super_admin_create_timetable
    \/ super_admin_update_timetable(1)
    \/ super_admin_delete_timetable(1)
    \/ next_day

SpecTimetable == Init /\ [][NextTimetable]_vars

\* the route /api/admin/chatbot serving one admin at a time
NextSemantic ==
    \/ startup_build_index
    \/ build_write_index
    \/ build_write_intents
    \/ admin_chatbot_query_alone
    \/ admin_db_query
    \/ chatbot_reply
    \/ next_day

SpecSemantic == Init /\ [][NextSemantic]_vars

\* the public chatbot asked about periods, while the super admin deletes
\* timetable entries and the department of one
NextPeriod ==
    \/ startup_build_index
    \/ build_write_index
    \/ build_write_intents
    \/ chatbot_query_period
    \/ db_query
    \/ chatbot_reply
    \/ super_admin_delete_timetable(1)
    \/ super_admin_delete_department_used(2)
    \/ next_day

SpecPeriod == Init /\ [][NextPeriod]_vars

\* the public chatbot over a store that empties
NextEmpty ==
    \/ startup_build_index
    \/ build_write_index
    \/ build_write_intents
    \/ chatbot_query_handlers
    \/ db_query
    \/ chatbot_reply
    \/ super_admin_delete_timetable(1)
    \/ super_admin_update_faculty_active(1)
    \/ next_day

SpecEmpty == Init /\ [][NextEmpty]_vars

\* the public chatbot asked questions of every shape, over a timetable and
\* lab programs the super admin edits
NextAnswer ==
    \/ startup_build_index
    \/ build_write_index
    \/ build_write_intents
    \/ chatbot_query_any
    \/ db_query
    \/ chatbot_reply
    \/ super_admin_delete_timetable(1)
    \/ super_admin_create_lab_program
    \/ super_admin_update_lab_program(1)
    \/ super_admin_delete_lab_program(1)
    \/ next_day

SpecAnswer == Init /\ [][NextAnswer]_vars

\* both chatbots asked while the super admin edits the timetable
NextFrame ==
    \/ startup_build_index
    \/ build_write_index
    \/ build_write_intents
    \/ chatbot_query_any
    \/ db_query
    \/ admin_chatbot_query_alone
    \/ admin_db_query
    \/ chatbot_reply
    \/ super_admin_delete_timetable(1)
    \/ next_day

SpecFrame == Init /\ [][NextFrame]_vars


\* both chatbots asked for schedules while the super admin adds and moves rows
NextWeekly ==
    \/ startup_build_index
    \/ build_write_index
    \/ build_write_intents
    \/ chatbot_query_schedule
    \/ db_query
    \/ admin_chatbot_query_weekly
    \/ admin_chatbot_query_absent
    \/ admin_db_query
    \/ chatbot_reply
    \/ super_admin_create_timetable_weekly
    \/ super_admin_update_timetable_weekly(1)
    \/ next_day

SpecWeekly == Init /\ [][NextWeekly]_vars

\* faculties submitting daily entries, each request on a thread of its own,
\* while the super admin deletes a faculty
NextSubmit ==
    \/ startup_build_index
    \/ build_write_index
    \/ build_write_intents
    \/ \E r \in 1..MaxSubmissions :
          \/ get_current_faculty(r)
          \/ submit_daily_entry_check(r)
          \/ submit_daily_entry_write(r)
    \/ super_admin_delete_faculty(1)
    \/ next_day

SpecSubmit == Init /\ [][NextSubmit]_vars

\* the public chatbot over a catalog the super admin edits
NextCatalog ==
    \/ startup_build_index
    \/ build_write_index
    \/ build_write_intents
    \/ chatbot_query_catalog
    \/ db_query
    \/ chatbot_reply
    \/ \E w \in 1..MaxEdits : super_admin_create_department(w)
    \/ super_admin_update_department(1)
    \/ super_admin_delete_department(1)
    \/ super_admin_create_syllabus
    \/ super_admin_update_syllabus(1)
    \/ super_admin_delete_syllabus(1)

SpecCatalog == Init /\ [][NextCatalog]_vars
(***************************************************************************)
(* Properties of the public chatbot                                        *)
(***************************************************************************)

\* the normalised text of the question being answered
asked == strip(lower(data_query))

\* process_question of /api/chatbot has returned, after it sent a query
Request == Answered /\ public_request /\ reads # <<>>

\* the date process_question read in its first lines
AskedOn == reads[1].day

\* the Faculty rows the query of rule 3 found, and the rows the handler of
\* the answering rule found
FacultiesFound == reads[1].db.faculties
Seen == joined_db(reads)

\* the active faculties one of whose name parts of more than 2 characters
\* occurs in the text
NamedFaculties(text) ==
    {FacultiesFound[i].id : i \in {k \in 1..Len(FacultiesFound) :
        /\ FacultiesFound[k].is_active
        /\ \E part \in {split(lower(FacultiesFound[k].name))[n] :
                            n \in 1..Len(split(lower(FacultiesFound[k].name)))} :
               Len(part) > 2 /\ Contains(text, part)}}

FacultyKinds == {"faculty_today_schedule", "faculty_no_classes"}
PeriodKinds == {"period_schedule", "no_classes_in_period"}

\* C1: a question that is no greeting and no help phrase and holds both a
\* name part (longer than 2 characters) of an active faculty and a generic
\* schedule keyword is answered by rule 3 with the schedule of a faculty it
\* names (the first one in the table), never by the generic rule 10; the
\* active faculties are those the request found
C1_FacultyBeforeGenericSchedule ==
    (/\ Request
     /\ ~is_greeting(asked) /\ ~is_help(asked)
     /\ NamedFaculties(asked) # {}
     /\ _is_general_schedule_query(asked))
    => (/\ cascade = 3
        /\ response.kind \in FacultyKinds
        /\ response.faculty = Least(NamedFaculties(asked)))

\* a question naming a faculty and holding 'schedule' has been answered with
\* that faculty's schedule
C1_Witness ==
    /\ Request
    /\ data_query = <<"s","a","t","h","i","s","h"," ","s","c","h","e","d","u","l","e">>
    /\ response.kind = "faculty_today_schedule"
    /\ response.faculty = 1

\* 'period N' stands in the text
HasPeriodN(text) ==
    \E i \in 1..Len(text) : OccursAt(text, <<"p","e","r","i","o","d"," ">>, i) /\ DigitAt(text, i + 7)

\* C2: a question holding 'period N' and a generic schedule keyword that
\* names no faculty, department or class type is answered with the schedule
\* of period N, not with the generic schedule of today
C2_PeriodBeforeGenericSchedule ==
    (/\ Request
     /\ ~is_greeting(asked) /\ ~is_help(asked)
     /\ HasPeriodN(asked)
     /\ _is_general_schedule_query(asked)
     /\ NamedFaculties(asked) = {}
     /\ _check_department_query(Seen, asked, get_day_name(AskedOn)) = None
     /\ _check_lab_query(Seen, asked, get_day_name(AskedOn)) = None
     /\ _check_theory_query(Seen, asked, get_day_name(AskedOn)) = None)
    => (response.kind \in PeriodKinds /\ cascade = 14)

\* the word w stands in the text with no \w character on either side
IsWordOf(text, w) ==
    \E i \in 1..Len(text) :
        /\ i + Len(w) - 1 <= Len(text)
        /\ \A k \in 1..Len(w) : text[i + k - 1] = w[k]
        /\ (i > 1 => text[i - 1] \notin WordChars)
        /\ (i + Len(w) <= Len(text) => text[i + Len(w)] \notin WordChars)

\* C3: _check_department_query resolves a question to a single-token code
\* (CSBS, CYS, MECH, RA) only when the code stands in the question as a word
\* of its own; the question 'programming' is not resolved to RA
C3_SingleCodeAtWordBoundary ==
    Request =>
        LET r == _check_department_query(Seen, asked, get_day_name(AskedOn))
        IN  /\ (r # None /\ r.dept \in {single_dept_codes[k] : k \in 1..Len(single_dept_codes)})
                => IsWordOf(asked, lower(r.dept))
            /\ (data_query = <<"p","r","o","g","r","a","m","m","i","n","g">> => r = None)

\* 'programming' was asked: no department was found in it and the question
\* fell through to the default answer
C3_Witness ==
    /\ Request
    /\ data_query = <<"p","r","o","g","r","a","m","m","i","n","g">>
    /\ _check_department_query(Seen, asked, get_day_name(AskedOn)) = None
    /\ cascade = 17

\* C5: an absentee question asked when the store holds no DailyEntry of
\* today is answered with a 'no daily entries filled yet' message, not with
\* the statement that all faculty are present; the store and the date are
\* those _get_absent_faculty found
C5_NoEntriesIsNotAllPresent ==
    (/\ Request
     /\ cascade = 8
     /\ \A i \in 1..Len(reads[2].db.daily_entries) :
            reads[2].db.daily_entries[i].date # reads[2].day)
    => response.kind # "no_absentees_all_present"

\* C6: a period query whose number lies outside 1..9 is answered with a
\* validation message of its own, not with the empty-result sentence 'No C
\* Programming classes in Period N'
C6_InvalidPeriodMessage ==
    (/\ Request
     /\ cascade = 14
     /\ extract_period(asked) \notin 1..9)
    => response.kind \notin PeriodKinds

\* _search_faqs was called: no rule 1 to 15 answered
FaqSearched == Request /\ cascade \in {16, 17}

\* the active FAQ rows the query of _search_faqs found
FaqsFound == active_faqs(reads[2].db)

\* the scores _search_faqs gives the active rows for a text
faq_scores(text) == [i \in 1..Len(FaqsFound) |-> faq_score(text, FaqsFound[i])]

\* the greatest score, 0 for an empty catalog
max_score(text) ==
    IF FaqsFound = <<>> THEN 0
    ELSE CHOOSE m \in {faq_scores(text)[i] : i \in 1..Len(FaqsFound)} :
             \A i \in 1..Len(FaqsFound) : faq_scores(text)[i] <= m

\* C10: _search_faqs returns the first row in catalog order that attains the
\* greatest score when that score is at least 10, and nothing otherwise (an
\* empty catalog included); the answer of rule 16 is that row
C10_FirstBestAboveThreshold ==
    FaqSearched =>
        LET r == _search_faqs(reads[2].db, asked)
            rows == FaqsFound
            best == Least({i \in 1..Len(rows) : faq_scores(asked)[i] = max_score(asked)})
        IN  /\ IF rows # <<>> /\ max_score(asked) >= 10
               THEN r.kind = "faq" /\ r.faq = rows[best].id /\ r.answer = rows[best].answer
               ELSE r = None
            /\ cascade = 16 => response = r
            /\ cascade = 17 => r = None

\* two different active rows attain the greatest score and the first one was
\* returned
C10_Witness ==
    /\ FaqSearched
    /\ cascade = 16
    /\ Len(FaqsFound) = 2
    /\ faq_scores(asked)[1] = faq_scores(asked)[2]
    /\ FaqsFound[1].question # FaqsFound[2].question
    /\ response.faq = FaqsFound[1].id

\* the tokens of a text: its whitespace-separated lowercase words of more
\* than 2 characters that are no stop-words
Tokens(text) ==
    {w \in {split(lower(text))[n] : n \in 1..Len(split(lower(text)))} :
        Len(w) >= 3 /\ w \notin stop_words}

\* one text stands inside the other
OneInsideOther(a, b) ==
    \/ \E i \in 1..(Len(b) + 1) : OccursAt(b, a, i)
    \/ \E i \in 1..(Len(a) + 1) : OccursAt(a, b, i)

\* the number of tokens of q that also are tokens of the FAQ question
CommonTokens(q, f) == Cardinality({w \in Tokens(q) : w \in Tokens(f.question)})

\* the number of tokens of q that occur in the lowercased FAQ answer
TokensInAnswer(q, f) ==
    Cardinality({w \in Tokens(q) :
        \E i \in 1..Len(f.answer) : OccursAt(lower(f.answer), w, i)})

\* C11: for the question q being answered and every active FAQ row f, the
\* score of f is 1000 if q equals the lowercased question of f, 500 if one
\* of the two stands inside the other, and otherwise 10 for each token the
\* two share plus 5 for each token of q that occurs in the lowercased answer
C11_ScoreFormula ==
    FaqSearched =>
        \A i \in 1..Len(FaqsFound) :
            LET f == FaqsFound[i]
            IN  faq_score(asked, f) =
                    IF asked = lower(f.question) THEN 1000
                    ELSE IF OneInsideOther(asked, lower(f.question)) THEN 500
                    ELSE 10 * CommonTokens(asked, f) + 5 * TokensInAnswer(asked, f)

\* a question has been answered with an FAQ row it neither equals nor
\* contains, scored 15 for one shared token that also occurs in the answer
C11_Witness ==
    /\ FaqSearched
    /\ cascade = 16
    /\ \E i \in 1..Len(FaqsFound) :
           /\ response.faq = FaqsFound[i].id
           /\ faq_score(asked, FaqsFound[i]) = 15
           /\ CommonTokens(asked, FaqsFound[i]) = 1
           /\ TokensInAnswer(asked, FaqsFound[i]) = 1

\* C12: a question that no rule and no FAQ row matches is answered with the
\* default text, and that text holds the name of today's weekday and the
\* example questions
C12_DefaultNamesWeekday ==
    (Request /\ cascade = 17)
    => (/\ response.kind = "default"
        /\ Contains(response.text, <<"w","e","e","k"," ","3"," ","l","a","b">>)
        /\ Contains(response.text, <<"s","e","s","s","i","o","n"," ","5"," ","p","p","t">>)
        /\ Contains(response.text, get_day_name(AskedOn)))

\* the timetable rows the request found of the department with a code on a
\* weekday
RowsOfDepartment(db, code, day_name) ==
    {db.timetable[i].id : i \in {k \in 1..Len(db.timetable) :
        /\ db.timetable[k].day = day_name
        /\ \E d \in 1..Len(db.departments) :
               /\ db.departments[d].id = db.timetable[k].department_id
               /\ db.departments[d].code = code}}

\* the step in which process_question returns: its last query, or its
\* first lines when it sends none
Returns ==
    /\ data_query = NoRequest \/ response = Pending
    /\ data_query' # NoRequest /\ response' # Pending

\* C13: a question that consists of a code of the department catalog and
\* holds no faculty name part is answered with the schedule of that
\* department for today's weekday: the answer lists exactly the timetable
\* rows of that department on that weekday, and gives the 'no classes'
\* sentence only when there are none.  The catalog is the one in the store
\* when process_question returns, the rows are those its queries found
C13_DepartmentCodeSchedule ==
    [][(/\ Returns
        /\ \E d \in 1..Len(departments) : departments[d].code = data_query'
        /\ Request' /\ NamedFaculties(asked)' = {})
       => LET rows == RowsOfDepartment(Seen', data_query', get_day_name(AskedOn'))
          IN  IF rows = {}
              THEN response'.kind = "no_classes_for_department"
              ELSE /\ response'.kind = "department_schedule"
                   /\ {response'.rows[i].entry.id : i \in 1..Len(response'.rows)}
                          = rows]_vars

\* C15: for every n in 1..9, _check_period_query extracts n from 'period n'
\* and from 'n<suffix> period' with the ordinal suffix of n, and hands
\* exactly n to _get_period_schedule; the question is answered by rule 14
C15_PeriodExtracted ==
    \A n \in 1..9 :
        (Request /\ data_query \in PeriodForms(n))
        => /\ extract_period(asked) = n
           /\ _check_period_query(Seen, asked, get_day_name(AskedOn)).kind \in PeriodKinds
           /\ _check_period_query(Seen, asked, get_day_name(AskedOn)).period = n
           /\ cascade = 14
           /\ response.period = n

\* '3rd period' was asked on a Monday and answered with the two classes of
\* period 3
C15_Witness ==
    /\ Request
    /\ data_query = <<"3","r","d"," ","p","e","r","i","o","d">>
    /\ response.kind = "period_schedule"
    /\ response.period = 3
    /\ response.total = 2

\* the weekdays whose names stand in the text
NamedDays(text) == {k \in 1..7 : Contains(text, lower(DayNames[k]))}

\* C16: a question that names one weekday d together with the word
\* 'schedule' or 'classes' and names no faculty and no department is
\* answered with the schedule of weekday d (whichever rule answers), not
\* with the schedule of today
C16_WeekdayScheduleOfThatDay ==
    (/\ Request
     /\ Cardinality(NamedDays(asked)) = 1
     /\ Contains(asked, <<"s","c","h","e","d","u","l","e">>) \/ Contains(asked, <<"c","l","a","s","s","e","s">>)
     /\ NamedFaculties(asked) = {}
     /\ _check_department_query(Seen, asked, get_day_name(AskedOn)) = None)
    => (/\ response.kind \in {"day_schedule", "no_classes_for_day", "today_schedule"}
        /\ \A k \in NamedDays(asked) : response.day = DayNames[k])

\* the answers a handler gives when its query returned no records
EmptyResult(a) ==
    \/ a.kind \in {"no_classes_in_period", "no_classes_for_day", "faculty_no_classes",
                    "no_classes_for_department", "no_classes_of_type",
                    "no_absentees_all_present", "topics_overview_no_entries",
                    "no_syllabus_information", "no_faculties_found", "no_lab_program",
                    "no_session"}
    \/ a.kind = "today_summary" /\ a.total_entries = 0

\* the text holds a word that tells of no classes or no data
SaysNone(text) ==
    \E w \in { <<"n","o">>, <<"n","o","n","e">>, <<"n","o","t">>, <<"n","o","t","h","i","n","g">>, <<"e","m","p","t","y">>, <<"u","n","a","v","a","i","l","a","b","l","e">> } :
        IsWordOf(lower(text), w)

\* C17: every handler of FAQChatbot whose query returned no records returns
\* a non-empty sentence that holds a word telling of no classes or no data
C17_EmptyResultSaysSo ==
    (Request /\ EmptyResult(response))
    => (/\ text_of(named_db(reads), response) # <<>>
        /\ SaysNone(text_of(named_db(reads), response)))

\* the timetable row is taught on the date and a DailyEntry of that date
\* for its faculty, department and period is marked absent
AbsentOn(e, date) ==
    /\ e.day = get_day_name(date)
    /\ \E i \in 1..Len(daily_entries) :
           /\ daily_entries[i].date = date
           /\ daily_entries[i].faculty_id = e.faculty_id
           /\ daily_entries[i].department_id = e.department_id
           /\ daily_entries[i].period = e.period
           /\ daily_entries[i].is_absent

\* C18: when a timetable row listed in a schedule answer has a DailyEntry
\* of today marked absent, the line of that row shows the status; the
\* daily entries are those in the store when process_question returns
C18_StatusShownInline ==
    [][(/\ Returns
        /\ Request'
        /\ response'.kind \in {"faculty_today_schedule", "department_schedule",
                               "period_schedule", "day_schedule"})
       => \A i \in 1..Len(response'.rows) :
              AbsentOn(response'.rows[i].entry, AskedOn')
              => /\ "status" \in DOMAIN response'.rows[i]
                 /\ response'.rows[i].status = "absent"]_vars

\* the answers about topics
TopicKinds == {"faculty_topics", "topics_covered", "topics_overview_no_entries",
               "no_syllabus_information"}

\* C19: a question that names a faculty member and holds 'topic' or 'teach'
\* gets a topic answer; one that holds 'class', 'schedule' or 'have', or
\* none of these keywords, gets the schedule of the faculty
C19_FacultySubIntent ==
    (/\ Request
     /\ ~is_greeting(asked) /\ ~is_help(asked)
     /\ NamedFaculties(asked) # {})
    => IF Contains(asked, <<"t","o","p","i","c">>) \/ Contains(asked, <<"t","e","a","c","h">>)
       THEN response.kind \in TopicKinds
       ELSE response.kind \in FacultyKinds

\* C21: for every question and every state of the store process_question
\* returns an answer: it never returns None and no exception leaves it
C21_AlwaysAnswers ==
    Answered
    => (response # None /\ response # OverflowError /\ response # ValueError)

\* the positions in the Faculty table of the active faculties the text names
NamedPositions(text) ==
    {k \in 1..Len(FacultiesFound) :
        FacultiesFound[k].is_active /\ FacultiesFound[k].id \in NamedFaculties(text)}

\* C24: the faculty-name rule (rule 3) answers only when the question holds
\* a name part longer than 2 characters of an active faculty, and then for
\* the first such faculty in the order of the table, however many the
\* question names; parts of 1 or 2 characters cause no match
C24_FirstNamedFacultyAnswers ==
    (Request /\ (cascade = 3 \/ response.kind \in FacultyKinds))
    => /\ cascade = 3
       /\ response.kind \in FacultyKinds
       /\ NamedPositions(asked) # {}
       /\ response.faculty = FacultiesFound[Least(NamedPositions(asked))].id

\* a question that names two active faculties, the later one of the table
\* first, has been answered for the earlier one of the table
C24_Witness ==
    /\ Request
    /\ data_query = <<"J","a","n","a","n","i"," ","s","a","t","h","i","s","h">>
    /\ Cardinality(NamedFaculties(asked)) >= 2
    /\ cascade = 3
    /\ response.faculty = 1

\* 'lab', 'week' or 'w' begins a word at i and, after an optional 'program',
\* a number follows
LabKeywordAt(text, i) ==
    /\ i = 1 \/ text[i - 1] \notin WordChars
    /\ alternation_at(text, i, << <<"l","a","b">>, <<"w","e","e","k">>, <<"w">> >>, <<"p","r","o","g","r","a","m">>) > 0

\* C25: the lab-program rule (rule 12) answers only a question in which
\* 'lab', 'week' or 'w' stands as a keyword of its own before a number; a w
\* that ends another word, as in 'show 3rd period', does not make it answer
C25_LabKeywordStandsAlone ==
    (Request /\ cascade = 12)
    => \E i \in 1..Len(asked) : LabKeywordAt(asked, i)

\* the text mentions the hyphenated code: written with the hyphen, with a
\* space in its place, or in one word
MentionsCode(text, code) ==
    LET k == CHOOSE n \in 1..Len(code) : code[n] = "-"
        left == lower(SubSeq(code, 1, k - 1))
        right == lower(SubSeq(code, k + 1, Len(code)))
    IN  \/ IsWordOf(text, left \o <<"-">> \o right)
        \/ IsWordOf(text, left \o <<" ">> \o right)
        \/ IsWordOf(text, left \o right)

\* C26: the department rule answers for a hyphenated code only when the
\* question mentions that code as a word or pair of words of its own, not
\* when its letters arise inside a word or across two unrelated words
C26_HyphenCodeMentioned ==
    (/\ Request
     /\ cascade = 4
     /\ \E k \in 1..Len(dept_codes_with_hyphen) : response.dept = dept_codes_with_hyphen[k])
    => MentionsCode(asked, response.dept)

\* C27: a question with no keyword (empty, blank, or made only of stop-words
\* and of words of 1 or 2 characters) that no earlier rule answers and that
\* equals the question of no active FAQ gets the default response, never the
\* answer of an FAQ, whatever FAQs there are
C27_NoKeywordsNoFaqAnswer ==
    (/\ FaqSearched
     /\ keywords(asked) = {}
     /\ \A i \in 1..Len(FaqsFound) : lower(FaqsFound[i].question) # asked)
    => (cascade = 17 /\ response = _default_response)

\* C28: in the summary of today the count of faculty teaching today is at
\* most the count of active faculty and the count of faculty free today is
\* not negative, also when rows of the timetable belong to inactive faculty
C28_SummaryCountsConsistent ==
    (Request /\ response.kind = "today_summary")
    => (/\ response.faculty_teaching <= response.total_faculty
        /\ response.free_today >= 0)

\* C29: whatever the order and the interleaving of the submissions of daily
\* entries, no two DailyEntry rows have the same faculty, department, date
\* and period
C29_OneDailyEntryPerKey ==
    \A i, j \in 1..Len(daily_entries) :
        (/\ daily_entries[i].faculty_id = daily_entries[j].faculty_id
         /\ daily_entries[i].department_id = daily_entries[j].department_id
         /\ daily_entries[i].date = daily_entries[j].date
         /\ daily_entries[i].period = daily_entries[j].period)
        => i = j

(***************************************************************************)
(* Properties of the admin chatbots                                        *)
(***************************************************************************)

SingleCodes == {single_dept_codes[k] : k \in 1..Len(single_dept_codes)}

\* C4: the department matchers of the admin chatbots (intent 5 of
\* ChatbotService, the get_faculty_by_dept branch of the semantic service)
\* resolve a question to CSBS, CYS, MECH or RA only when the code stands in
\* it as a word of its own: 'who teaches programming' is not resolved to RA
C4_AdminCodesAtWordBoundary ==
    /\ (/\ Answered
        /\ response.kind \in {"service_faculty_for_department",
                              "service_no_faculty_for_department"}
        /\ response.dept \in SingleCodes)
       => IsWordOf(asked, lower(response.dept))
    /\ \A r \in 1..MaxRequests :
          (/\ requests[r].answer.kind \in {"semantic_faculty_for_department",
                                           "semantic_no_faculty_for_department"}
           /\ requests[r].answer.dept \in SingleCodes)
          => IsWordOf(lower(requests[r].query), lower(requests[r].answer.dept))

\* C7: a request consults the semantic matcher only after the greeting and
\* help rules, the entity rules and the FAQ matcher have been consulted and
\* have failed; it is never the first stage of an entry point
C7_SemanticMatcherLast ==
    \A r \in 1..MaxRequests :
        \A i \in 1..Len(requests[r].consulted) :
            requests[r].consulted[i] = "semantic" =>
                {"greeting_help", "entity_rules", "faq"} \subseteq
                    {requests[r].consulted[j] : j \in 1..(i - 1)}

\* C8: every database read made while a request is answered uses the
\* session of that request, whatever the other requests do
C8_ReadsUseOwnSession ==
    \A r \in 1..MaxRequests : requests[r].used \subseteq {requests[r].db}

\* C9: whenever a SemanticChatbotService object is in place, after any
\* startups, interrupted or not, its index holds as many vectors as
\* intent_map holds labels, and intent_map[i] is the intent of the example
\* that vector i encodes
C9_IndexMatchesIntentMap ==
    semantic_chatbot.loaded =>
        /\ Len(semantic_chatbot.index) = Len(semantic_chatbot.intent_map)
        /\ Len(semantic_chatbot.index) > 0
        /\ \A i \in 1..Len(semantic_chatbot.index) :
              \E k \in 1..Len(intents) :
                  /\ intents[k].intent = semantic_chatbot.intent_map[i]
                  /\ \E n \in 1..Len(intents[k].examples) :
                         semantic_chatbot.index[i] = encode(intents[k].examples[n])

\* the process runs after a startup that found the index file without the
\* intents file, as an interruption between the two writes leaves them
C9_Witness ==
    /\ semantic_chatbot.loaded
    /\ server.pc = "running"
    /\ server.found = [index |-> TRUE, intents |-> FALSE]
    /\ index_file.complete /\ intents_file.complete

\* the Syllabus row of a session number, or NoRow
SessionRow(n) == first(SelectSeq(syllabus, LAMBDA s : s.session_number = n))

\* the Syllabus row of a session number the request found, or NoRow
SessionRowFound(n) ==
    first(SelectSeq(reads[1].db.syllabus, LAMBDA s : s.session_number = n))

\* process_question of /api/admin/chatbot has returned
AdminRequest == Answered /\ search # NoSearch

\* the nearest example was accepted and its intent is the given one
AcceptedIntent(intent) ==
    /\ search # NoSearch
    /\ search.distance <= confidence_threshold
    /\ semantic_chatbot.intent_map[search.idx] = intent

\* C14: a session/PPT question for session N is answered by each chatbot
\* variant with the PPT link of session N when the session has one, with
\* 'Not available yet' when its ppt_url is null, and with the 'no session
\* found' sentence when there is no such session; no handler raises
C14_SessionPptAnswered ==
    (AdminRequest /\ first_number(data_query) # -1)
    => LET n == first_number(data_query)
           faq == FAQChatbot_cascade(Store, data_query, today)
           service == ChatbotService_cascade(Store, data_query, today)
       IN  /\ faq.rule = 13 =>
                IF SessionRow(n) = NoRow THEN faq.answer.kind = "no_session"
                ELSE /\ faq.answer.kind = "session_ppt"
                     /\ faq.answer.ppt = IF SessionRow(n).ppt_url = Null
                                         THEN <<"N","o","t"," ","a","v","a","i","l","a","b","l","e"," ","y","e","t">>
                                         ELSE SessionRow(n).ppt_url
           /\ service.rule = 3 =>
                IF SessionRow(n) = NoRow THEN service.answer.kind = "service_no_session"
                ELSE /\ service.answer.kind = "service_session"
                     /\ service.answer.ppt_url = SessionRow(n).ppt_url
           /\ AcceptedIntent("get_session_ppt") =>
                IF SessionRowFound(n) = NoRow THEN response.kind = "semantic_no_session"
                ELSE response.kind = "semantic_session"

\* the answers the handler of an intent can give
HandlerKinds(intent) ==
    CASE intent = "get_schedule_today" ->
            {"semantic_no_classes_scheduled", "semantic_faculties_with_classes"}
      [] intent = "get_complete_schedule" ->
            {"semantic_no_classes_for_day", "semantic_complete_schedule"}
      [] intent = "get_absent_faculty" ->
            {"semantic_no_classes_no_absences", "semantic_all_scheduled_present"}
      [] intent = "get_lab_program" ->
            {"semantic_no_lab_program", "semantic_lab_program", "semantic_specify_week"}
      [] intent = "get_session_ppt" ->
            {"semantic_no_session", "AttributeError", "semantic_specify_session"}
      [] intent = "get_faculty_by_dept" ->
            {"semantic_no_faculty_for_department", "semantic_faculty_for_department",
             "semantic_specify_department"}
      [] intent = "get_faculty_schedule" ->
            {"semantic_faculty_not_found", "semantic_faculty_no_classes",
             "semantic_faculty_schedule"}
      [] intent = "list_all_faculty" -> {"semantic_no_faculties", "semantic_all_faculties"}
      [] intent = "get_teaching_history" ->
            {"semantic_no_recent_entries", "semantic_recent_entries"}
      [] intent = "help" -> {"semantic_help"}
      [] intent = "greeting" -> {"semantic_greeting"}
      [] OTHER -> {}

\* C20: SemanticChatbotService.process_question runs the handler of the
\* intent of the nearest example if and only if the nearest distance is at
\* most 0.8 (8 tenths); when it is greater the answer is the 'not sure I
\* understood' text and no handler runs
C20_ThresholdGatesHandler ==
    AdminRequest
    => IF search.distance <= 8
       THEN response.kind \in HandlerKinds(semantic_chatbot.intent_map[search.idx])
       ELSE response.kind = "semantic_not_understood" /\ reads = <<>>

\* a question was answered by the greeting handler at a distance of exactly
\* 0.8 while the object in place was built at startup
C20_Witness ==
    /\ AdminRequest
    /\ data_query = <<"H","e","l","l","o">>
    /\ search.distance = 8
    /\ semantic_chatbot.loaded
    /\ semantic_chatbot.intent_map[search.idx] = "greeting"
    /\ response.kind = "semantic_greeting"

\* a step of process_question: it is entered, or it sends a query
AnsweringStep ==
    /\ data_query' # NoRequest
    /\ <<data_query, reads, response>>' # <<data_query, reads, response>>

\* C22: every step that answers a question, of the public chatbot or of the
\* semantic one, leaves the records of the store, the embedding index, the
\* intent_map and the two persisted files as they were
C22_AnsweringOnlyReads ==
    [][AnsweringStep
       => /\ UNCHANGED <<store_vars, index_file, intents_file>>
          /\ semantic_chatbot'.index = semantic_chatbot.index
          /\ semantic_chatbot'.intent_map = semantic_chatbot.intent_map]_vars

\* the semantic chatbot has answered from the records of the store, with the
\* index it built still the one persisted
C22_Witness ==
    /\ AdminRequest
    /\ reads # <<>>
    /\ semantic_chatbot.index # <<>>
    /\ index_file.exists /\ index_file.index = semantic_chatbot.index


\* the answers that list the rows of one day, one row after the other
DayRowKinds ==
    {"day_schedule", "period_schedule", "faculty_today_schedule", "department_schedule",
     "class_type_schedule"}

Ascending(xs) == \A i, j \in 1..Len(xs) : i < j => xs[i] <= xs[j]

\* the position of a day in Monday .. Saturday, 0 for any other day
DayPosition(d) ==
    IF \E k \in 1..Len(days_order) : days_order[k] = d
    THEN CHOOSE k \in 1..Len(days_order) : days_order[k] = d
    ELSE 0

\* the periods of the lines of an answer, in the order the answer shows them
RECURSIVE PeriodsShown(_)
PeriodsShown(rows) ==
    IF rows = <<>> THEN <<>> ELSE Head(rows).periods \o PeriodsShown(Tail(rows))

\* the periods of the groups of an answer, in the order the answer shows them
RECURSIVE GroupPeriods(_)
GroupPeriods(rows) ==
    IF rows = <<>> THEN <<>>
    ELSE [i \in 1..Len(Head(rows).schedule) |-> Head(rows).schedule[i].period]
         \o GroupPeriods(Tail(rows))

\* answers that show the rows of one day, one line for each row
RowKinds == DayRowKinds \cup {"semantic_complete_schedule", "service_classes_on_day"}

\* answers that show the rows of one day, one line for each faculty
FacultyLineKinds == {"today_schedule", "semantic_faculties_with_classes"}

\* answers that show, for each faculty, the rows of one more query
StatusKinds == {"semantic_all_scheduled_present", "service_all_scheduled_present"}

\* C23: in every non-empty schedule answer the rows of one day appear in
\* ascending period order (the periods read down the answer, where its lines
\* are grouped by faculty or by department; the periods of each query, where
\* the answer sends a query for each faculty), and in the weekly view of a
\* faculty the days follow Monday to Saturday with the periods of each day
\* ascending, whatever order the table holds the rows in
C23_SchedulesOrdered ==
    Answered
    => /\ response.kind \in RowKinds
          => Ascending([i \in 1..Len(response.rows) |-> response.rows[i].entry.period])
       /\ response.kind \in FacultyLineKinds
          => Ascending(PeriodsShown(response.rows))
       /\ response.kind = "service_complete_schedule"
          => Ascending(GroupPeriods(response.rows))
       /\ response.kind \in StatusKinds
          => \A i \in 1..Len(response.rows) : Ascending(response.rows[i].periods)
       /\ response.kind = "semantic_faculty_schedule"
          => /\ \A i \in 1..Len(response.rows) :
                    /\ DayPosition(response.rows[i].day) > 0
                    /\ Ascending(response.rows[i].periods)
             /\ Ascending([i \in 1..Len(response.rows) |-> DayPosition(response.rows[i].day)])

\* the number of periods the rows of a weekly view show
RECURSIVE ShownPeriods(_)
ShownPeriods(rows) ==
    IF rows = <<>> THEN 0 ELSE Len(Head(rows).periods) + ShownPeriods(Tail(rows))

\* the timetable rows the query for the rows of the matched faculty found
RowsFound == SelectSeq(reads[2].db.timetable, LAMBDA e : e.faculty_id = response.faculty)

\* C30: the weekly schedule of a faculty shows every timetable row of that
\* faculty, under its day, and as many periods as the faculty has rows,
\* whatever the day of a row, Sunday included
C30_WeeklyViewShowsEveryEntry ==
    (AdminRequest /\ response.kind = "semantic_faculty_schedule")
    => /\ \A i \in 1..Len(RowsFound) :
              \E d \in 1..Len(response.rows) :
                  /\ response.rows[d].day = RowsFound[i].day
                  /\ \E k \in 1..Len(response.rows[d].periods) :
                         response.rows[d].periods[k] = RowsFound[i].period
       /\ ShownPeriods(response.rows) = Len(RowsFound)
=============================================================================
